---- MODULE Spec2Model ----
(***************************************************************************)
(* Verification model of the exact-inference engine of dwave-samplers      *)
(* (orang): the greedy elimination-order heuristic (src/src/orang/         *)
(* varorder.h), the C entry points (src/c/interface.cc, src/c/mempool.cc)  *)
(* and the tree decomposition / bucket tree they drive.                    *)
(*                                                                         *)
(* Complexities are log2 of a product of domain sizes in the code.  The    *)
(* model stores the product itself (the code's p2Cplx) and compares it     *)
(* with 2^maxComplexity, which is the same comparison in exact arithmetic. *)
(***************************************************************************)
EXTENDS Integers, Sequences, FiniteSets, TLC

\* ------------------------------------------------------------------------
\* Bounds of the model
\* ------------------------------------------------------------------------
NumVars == 3
MaxEdges == 3
MaxBig == 1
MaxPre == 1
MaxRank == 1
MaxCplx == 3
RngDen == 2
MaxScale == 3

Vars == 0 .. (NumVars - 1)

\* ------------------------------------------------------------------------
\* Generic helpers
\* ------------------------------------------------------------------------
RECURSIVE Pow2(_)
Pow2(n) == IF n <= 0 THEN 1 ELSE 2 * Pow2(n - 1)

RECURSIVE ProdDom(_, _)
ProdDom(S, dom) ==
  IF S = {} THEN 1
  ELSE LET x == CHOOSE y \in S : TRUE IN dom[x] * ProdDom(S \ {x}, dom)

RECURSIVE SumDom(_, _)
SumDom(S, dom) ==
  IF S = {} THEN 0
  ELSE LET x == CHOOSE y \in S : TRUE IN dom[x] + SumDom(S \ {x}, dom)

MinOf(a, b) == IF a <= b THEN a ELSE b
MaxOf(a, b) == IF a >= b THEN a ELSE b

RECURSIVE MaxSet(_)
MaxSet(S) ==
  IF S = {} THEN 0
  ELSE LET x == CHOOSE y \in S : TRUE IN MaxOf(x, MaxSet(S \ {x}))

\* log2(p) <= maxC for a product p >= 1 of domain sizes
CplxLE(p, maxC) == maxC >= 0 /\ p <= Pow2(maxC)

\* ------------------------------------------------------------------------
\* State
\* ------------------------------------------------------------------------
VARIABLES
  gin,            \* inputs of the running greedyVarOrder call
  gv,             \* VarContainer: per-variable record
  varOrder,       \* the order built so far
  lastClampRank,  \* rank of the variable clamped last, -1 before any clamp
  gpc,            \* "loop" while the main loop runs, "done" after return
  glast,          \* what the last loop iteration did
  gclamped        \* the variables clamped by the loop so far

gvars == <<gin, gv, varOrder, lastClampRank, gpc, glast, gclamped>>

VARIABLES
  btin,   \* arguments of the BucketTree constructor
  bt,     \* the BucketTree object
  btlog   \* the outcome of the last call on the tree and the number of calls

bvars == <<btin, bt, btlog>>

VARIABLES
  cin,    \* the arguments of a call of an entry point
  cout    \* what the call left behind

cvars == <<cin, cout>>

VARIABLES
  defaultRngEngine,  \* static engine of sample, seeded from the clock
  seededRngEngine,   \* static engine of sample, seeded by the caller
  slog               \* the calls of sample so far, with what each returned

svars == <<defaultRngEngine, seededRngEngine, slog>>

VARIABLES
  ain,     \* the arguments of general_simulated_annealing
  anneal   \* its position, its locals and the buffers of the caller

avars == <<ain, anneal>>

VARIABLES
  din,    \* the arguments of steepest_gradient_descent
  desc    \* its position, the state buffer and the locals of the solver

dvars == <<din, desc>>

VARIABLES
  qin,    \* the arguments of localPIMC::reinitQuantum
  pimc    \* its position, the object's members and the accesses it made

qvars == <<qin, pimc>>

allvars == <<gvars, bvars, cvars, svars, avars, dvars, qvars>>

Unused == [used |-> FALSE]

\* the variables of the bucket-tree object while another component runs
BtUnused == btin = Unused /\ bt = Unused /\ btlog = Unused

\* the variables of the entry points while another component runs
CUnused == cin = Unused /\ cout = Unused

\* the statics of sample while another component runs
SUnused == defaultRngEngine = Unused /\ seededRngEngine = Unused /\ slog = Unused

\* the variables of the annealing loop while another component runs
AUnused == ain = Unused /\ anneal = Unused

\* the variables of the descent while another component runs
DUnused == din = Unused /\ desc = Unused

\* the variables of reinitQuantum while another component runs
QUnused == qin = Unused /\ pimc = Unused

\* the variables of greedyVarOrder while another component runs
GvoUnused ==
  /\ gin = Unused /\ gv = Unused /\ varOrder = <<>> /\ lastClampRank = 0
  /\ gpc = "unused" /\ glast = Unused /\ gclamped = {}

MIN_DEGREE == 0
WEIGHTED_MIN_DEGREE == 1
MIN_FILL == 2
WEIGHTED_MIN_FILL == 3
Heuristics == {MIN_DEGREE, WEIGHTED_MIN_DEGREE, MIN_FILL, WEIGHTED_MIN_FILL}

\* ------------------------------------------------------------------------
\* greedyVarOrder: variable data
\* ------------------------------------------------------------------------

\* Variable::Variable: processed iff clampRank < 0; the adjacency list keeps
\* only neighbours that are not clamped from the start.
InitVariable(v, adj, ranks) ==
  [ processed  |-> ranks[v] < 0,
    clampRank  |-> ranks[v],
    clampValue |-> 0,
    cost       |-> 0,
    complexity |-> 1,
    adjList    |-> {w \in adj[v] : ranks[w] >= 0} ]

\* UpdateMinFillVarData::updateCost: pairs u < w of neighbours of v with w
\* missing from u's adjacency list.
FillPairs(vs, v) ==
  {p \in vs[v].adjList \X vs[v].adjList :
      p[1] < p[2] /\ p[2] \notin vs[p[1]].adjList}

RECURSIVE SumPairs(_, _)
SumPairs(P, dom) ==
  IF P = {} THEN 0
  ELSE LET p == CHOOSE q \in P : TRUE
       IN dom[p[1]] * dom[p[2]] + SumPairs(P \ {p}, dom)

\* updateCost with the plain degree for the weighted min-degree heuristic
updateCost_Degree(vs, v, h, dom, clampValue) ==
  CASE h \in {MIN_DEGREE, WEIGHTED_MIN_DEGREE} -> Cardinality(vs[v].adjList)
    [] h = MIN_FILL                            -> Cardinality(FillPairs(vs, v))
    [] OTHER                                   -> SumPairs(FillPairs(vs, v), dom)

updateCost(vs, v, h, dom, clampValue) ==
  CASE h = MIN_DEGREE          -> Cardinality(vs[v].adjList)
    [] h = WEIGHTED_MIN_DEGREE -> clampValue
    [] h = MIN_FILL            -> Cardinality(FillPairs(vs, v))
    [] OTHER                   -> SumPairs(FillPairs(vs, v), dom)

\* UpdateVarData with the neighbours left out of the complexity product
UpdateVarData_OwnDomainOnly(vs, v, h, dom) ==
  LET cv == dom[v] * Cardinality(vs[v].adjList)
  IN [ vs[v] EXCEPT
         !.clampValue = cv,
         !.complexity = dom[v],
         !.cost       = updateCost(vs, v, h, dom, cv) ]

\* UpdateVarData::operator()
UpdateVarData(vs, v, h, dom) ==
  LET cv == dom[v] * Cardinality(vs[v].adjList)
  IN [ vs[v] EXCEPT
         !.clampValue = cv,
         !.complexity = dom[v] * ProdDom(vs[v].adjList, dom),
         !.cost       = updateCost(vs, v, h, dom, cv) ]

\* the loops "BOOST_FOREACH(uIndex, S) varsByIndex.modify(.., *updateCostPtr)":
\* an update reads adjacency lists and domain sizes only, so the order of the
\* loop does not matter
UpdateAll(vs, S, h, dom) ==
  [v \in DOMAIN vs |-> IF v \in S THEN UpdateVarData(vs, v, h, dom) ELSE vs[v]]

\* ElimNeighbour::operator()
ElimNeighbour(var, u, elimVar, vars) ==
  [var EXCEPT !.adjList = ((var.adjList \cup vars) \ {u}) \ {elimVar}]

\* ClampNeighbour::operator()
ClampNeighbour(var, clampVar) ==
  [var EXCEPT !.adjList = var.adjList \ {clampVar}]

\* the neighbours only, whatever the heuristic
AffectedVars_DirectOnly(vs, v, h) == vs[v].adjList

\* MinDegreeAffectedVars / MinFillAffectedVars
AffectedVars(vs, v, h) ==
  IF h \in {MIN_DEGREE, WEIGHTED_MIN_DEGREE}
  THEN vs[v].adjList
  ELSE (vs[v].adjList \cup UNION {vs[u].adjList : u \in vs[v].adjList}) \ {v}

\* ------------------------------------------------------------------------
\* greedyVarOrder: the two ordered indices of the container
\* ------------------------------------------------------------------------
\* numeric_limits<Var>::max(): an index above every variable of the task
VAR_MAX == NumVars + 1
\* numeric_limits<double>::infinity(): above every cost and clamp value
COST_INF == 1000000000

\* a container element: the per-variable record together with its index
Elem(vs, v) ==
  [ index |-> v, processed |-> vs[v].processed, clampRank |-> vs[v].clampRank,
    clampValue |-> vs[v].clampValue, cost |-> vs[v].cost,
    complexity |-> vs[v].complexity ]

\* the comparison without rule 2: over-budget variables are not put last
CostCmp_CostOnly(v1, v2, maxC) ==
  ~v1.processed
  /\ (v2.processed
      \/ v1.cost < v2.cost
      \/ (v1.cost = v2.cost /\ v1.index < v2.index))

\* CostCmp::operator()
CostCmp(v1, v2, maxC) ==
  ~v1.processed
  /\ (v2.processed
      \/ (CplxLE(v1.complexity, maxC)
          /\ (~CplxLE(v2.complexity, maxC)
              \/ v1.cost < v2.cost
              \/ (v1.cost = v2.cost /\ v1.index < v2.index))))

\* ClampCmp::operator()
ClampCmp(v1, v2) ==
  ~v1.processed
  /\ (v2.processed
      \/ v1.clampRank < v2.clampRank
      \/ (v1.clampRank = v2.clampRank
          /\ (v1.clampValue > v2.clampValue
              \/ (v1.clampValue = v2.clampValue /\ v1.index < v2.index))))

\* Variable::upperBound, complexityUpperBound, clampRankUpperBound
upperBound(var) == [var EXCEPT !.index = VAR_MAX]

complexityUpperBound(maxC) ==
  [ index |-> VAR_MAX, processed |-> FALSE, clampRank |-> 0, clampValue |-> 0,
    cost |-> COST_INF, complexity |-> Pow2(maxC) ]

clampRankUpperBound(rank) ==
  [ index |-> VAR_MAX, processed |-> FALSE, clampRank |-> rank,
    clampValue |-> 0 - COST_INF, cost |-> 0, complexity |-> 1 ]

\* the comparator of an ordered index: "cost" or "clamp"
IndexLess(ix, a, b, maxC) ==
  IF ix = "cost" THEN CostCmp(a, b, maxC) ELSE ClampCmp(a, b)

\* An ordered index as a sequence of variable indices.  Elements that the
\* comparator leaves unordered (processed ones, over-budget ones) are listed
\* by index: the code never selects among them by position.
RECURSIVE SortBy(_, _, _, _)
SortBy(S, vs, ix, maxC) ==
  IF S = {} THEN <<>>
  ELSE LET m == CHOOSE x \in S :
                  \A y \in S \ {x} :
                     IndexLess(ix, Elem(vs, x), Elem(vs, y), maxC)
                     \/ (~IndexLess(ix, Elem(vs, y), Elem(vs, x), maxC) /\ x < y)
       IN <<m>> \o SortBy(S \ {m}, vs, ix, maxC)

varsByCost(vs, maxC) == SortBy(DOMAIN vs, vs, "cost", maxC)

varsByClamp(vs) == SortBy(DOMAIN vs, vs, "clamp", 0)

\* ordered_index::upper_bound: the number of leading elements e of the index
\* for which the comparator does not put the key before e
RECURSIVE upper_bound(_, _, _, _, _)
upper_bound(sq, vs, key, ix, maxC) ==
  IF sq = <<>> \/ IndexLess(ix, key, Elem(vs, Head(sq)), maxC) THEN 0
  ELSE 1 + upper_bound(Tail(sq), vs, key, ix, maxC)

\* selectVar: the offset from begin.  rn / RngDen is the RNG draw and
\* sn / ScaleDen the selection scale; rn = RngDen stands for a draw so close
\* to 1 that the product rounds to selectionRange in single precision.
ScaleDen == 2
selectVar(baseRange, totalRange, rn, sn) ==
  LET selNum == MinOf(baseRange * sn, ScaleDen * totalRange)
      incr0  == (selNum * rn) \div (ScaleDen * RngDen)
      incr1  == MaxOf(incr0, 0)
  IN MinOf(incr1, totalRange - 1)

\* ------------------------------------------------------------------------
\* greedyVarOrder: one iteration of the main loop
\* ------------------------------------------------------------------------

\* the elimination branch (varorder.h 500-517) for RNG draw rn
ElimBranch(vs, in, rn) ==
  LET cix       == varsByCost(vs, in.maxC)
      lower     == Elem(vs, cix[1])
      baseEnd   == upper_bound(cix, vs, upperBound(lower), "cost", in.maxC)
      finalEnd  == upper_bound(cix, vs, complexityUpperBound(in.maxC), "cost", in.maxC)
      incr      == selectVar(baseEnd, finalEnd, rn, in.scale)
      v         == cix[incr + 1]
      affected  == AffectedVars(vs, v, in.h)
      vs1       == [vs EXCEPT ![v].processed = TRUE]
      vs2       == [u \in DOMAIN vs |->
                      IF u \in vs[v].adjList
                      THEN ElimNeighbour(vs1[u], u, v, vs[v].adjList)
                      ELSE vs1[u]]
  IN [ vs   |-> UpdateAll(vs2, affected, in.h, in.dom),
       v    |-> v,
       incr |-> incr, base |-> baseEnd, total |-> finalEnd ]

\* the loop started at the first element of the clamp index
DecrementClampRank_All(vs, last) ==
  IF last >= 0
  THEN [u \in DOMAIN vs |->
          IF ~vs[u].processed
          THEN [vs[u] EXCEPT !.clampRank = @ - 1]
          ELSE vs[u]]
  ELSE vs

\* the loop that decrements clamp ranks (varorder.h 520-527)
DecrementClampRank(vs, last) ==
  IF last >= 0
  THEN [u \in DOMAIN vs |->
          IF ~vs[u].processed /\ vs[u].clampRank > last
          THEN [vs[u] EXCEPT !.clampRank = @ - 1]
          ELSE vs[u]]
  ELSE vs

\* the clamp branch without MarkAsProcessed
ClampBranch_NoMark(vs0, in, last, rn) ==
  LET vs        == DecrementClampRank(vs0, last)
      kix       == varsByClamp(vs)
      lower     == Elem(vs, kix[1])
      baseEnd   == upper_bound(kix, vs, upperBound(lower), "clamp", 0)
      finalEnd  == upper_bound(kix, vs, clampRankUpperBound(lower.clampRank), "clamp", 0)
      incr      == selectVar(baseEnd, finalEnd, rn, in.scale)
      v         == kix[incr + 1]
      vs2       == [u \in DOMAIN vs |->
                      IF u \in vs[v].adjList
                      THEN ClampNeighbour(vs[u], v)
                      ELSE vs[u]]
  IN [ vs   |-> UpdateAll(vs2, vs[v].adjList, in.h, in.dom),
       v    |-> v,
       rank |-> vs[v].clampRank,
       incr |-> incr, base |-> baseEnd, total |-> finalEnd ]

\* the clamp branch (varorder.h 519-545) for RNG draw rn
ClampBranch(vs0, in, last, rn) ==
  LET vs        == DecrementClampRank(vs0, last)
      kix       == varsByClamp(vs)
      lower     == Elem(vs, kix[1])
      baseEnd   == upper_bound(kix, vs, upperBound(lower), "clamp", 0)
      finalEnd  == upper_bound(kix, vs, clampRankUpperBound(lower.clampRank), "clamp", 0)
      incr      == selectVar(baseEnd, finalEnd, rn, in.scale)
      v         == kix[incr + 1]
      vs1       == [vs EXCEPT ![v].processed = TRUE]
      vs2       == [u \in DOMAIN vs |->
                      IF u \in vs[v].adjList
                      THEN ClampNeighbour(vs1[u], v)
                      ELSE vs1[u]]
  IN [ vs   |-> UpdateAll(vs2, vs[v].adjList, in.h, in.dom),
       v    |-> v,
       rank |-> vs[v].clampRank,
       incr |-> incr, base |-> baseEnd, total |-> finalEnd ]

\* varsByCost.begin() of the current container
minCostLower(vs, in) == Elem(vs, varsByCost(vs, in.maxC)[1])

\* ------------------------------------------------------------------------
\* greedyVarOrder: inputs and initial state
\* ------------------------------------------------------------------------
Edges == {e \in Vars \X Vars : e[1] < e[2]}

Graphs ==
  {[v \in Vars |-> {w \in Vars : <<v, w>> \in E \/ <<w, v>> \in E}] :
      E \in {F \in SUBSET Edges : Cardinality(F) <= MaxEdges}}

DomSizeVectors ==
  {d \in [Vars -> {2, 3}] : Cardinality({v \in Vars : d[v] = 3}) <= MaxBig}

ClampRankVectors ==
  {r \in [Vars -> (0 - 1) .. MaxRank] :
      Cardinality({v \in Vars : r[v] < 0}) <= MaxPre}

ScaleNums == {0, ScaleDen, ScaleDen * MaxScale}
RngNums == 0 .. RngDen

GvoInputs ==
  [ adj : Graphs, dom : DomSizeVectors, ranks : ClampRankVectors,
    maxC : 1 .. MaxCplx, h : Heuristics, scale : ScaleNums ]

\* VarContainer::VarContainer followed by the first update loop (485-487)
VarContainer(in) ==
  LET vs0 == [v \in DOMAIN in.adj |-> InitVariable(v, in.adj, in.ranks)]
  IN UpdateAll(vs0, DOMAIN in.adj, in.h, in.dom)

NoStep == [kind |-> "none", v |-> 0, incr |-> 0, base |-> 0, total |-> 0, iter |-> 0]

GvoInit ==
  /\ gin \in GvoInputs
  /\ gv = VarContainer(gin)
  /\ varOrder = <<>>
  /\ lastClampRank = 0 - 1
  /\ gpc = "loop"
  /\ glast = NoStep
  /\ gclamped = {}
  /\ BtUnused
  /\ CUnused
  /\ SUnused
  /\ AUnused
  /\ DUnused
  /\ QUnused

\* ------------------------------------------------------------------------
\* greedyVarOrder: actions
\* ------------------------------------------------------------------------

\* the loop ends when the cheapest element is a processed variable
GvoReturn ==
  /\ gpc = "loop"
  /\ minCostLower(gv, gin).processed
  /\ gpc' = "done"
  /\ glast' = [NoStep EXCEPT !.iter = glast.iter]
  /\ UNCHANGED <<gin, gv, varOrder, lastClampRank, gclamped, bvars, cvars, svars, avars, dvars, qvars>>

GvoEliminate ==
  /\ gpc = "loop"
  /\ ~minCostLower(gv, gin).processed
  /\ CplxLE(minCostLower(gv, gin).complexity, gin.maxC)
  /\ \E rn \in RngNums :
       \E r \in {ElimBranch(gv, gin, rn)} :
          /\ gv' = r.vs
          /\ varOrder' = Append(varOrder, r.v)
          /\ glast' = [kind |-> "elim", v |-> r.v, incr |-> r.incr,
                       base |-> r.base, total |-> r.total,
                       iter |-> glast.iter + 1]
  /\ UNCHANGED <<gin, lastClampRank, gpc, gclamped, bvars, cvars, svars, avars, dvars, qvars>>

GvoClamp ==
  /\ gpc = "loop"
  /\ ~minCostLower(gv, gin).processed
  /\ ~CplxLE(minCostLower(gv, gin).complexity, gin.maxC)
  /\ \E rn \in RngNums :
       \E r \in {ClampBranch(gv, gin, lastClampRank, rn)} :
          /\ gv' = r.vs
          /\ lastClampRank' = r.rank
          /\ gclamped' = gclamped \cup {r.v}
          /\ glast' = [kind |-> "clamp", v |-> r.v, incr |-> r.incr,
                       base |-> r.base, total |-> r.total,
                       iter |-> glast.iter + 1]
  /\ UNCHANGED <<gin, varOrder, gpc, bvars, cvars, svars, avars, dvars, qvars>>

GvoNext == GvoEliminate \/ GvoClamp \/ GvoReturn

SpecGVO == GvoInit /\ [][GvoNext]_allvars

\* ------------------------------------------------------------------------
\* greedyVarOrder on tasks with one more variable, where the elimination of
\* a variable changes the fill of a variable that is not its neighbour
\* ------------------------------------------------------------------------
NumVarsWide == NumVars + 1
MaxEdgesWide == 4

WideVars == 0 .. (NumVarsWide - 1)

WideEdges == {e \in WideVars \X WideVars : e[1] < e[2]}

WideGraphs ==
  {[v \in WideVars |-> {w \in WideVars : <<v, w>> \in E \/ <<w, v>> \in E}] :
      E \in {F \in SUBSET WideEdges : Cardinality(F) <= MaxEdgesWide}}

\* all binary, or variable 0 with three values
WideDomSizeVectors ==
  {[v \in WideVars |-> 2], [v \in WideVars |-> IF v = 0 THEN 3 ELSE 2]}

\* no preference, the last variable clamped from the start, or variable 0
\* clamped after the others
WideClampRankVectors ==
  {[v \in WideVars |-> 0], [v \in WideVars |-> IF v = NumVarsWide - 1 THEN 0 - 1 ELSE 0],
   [v \in WideVars |-> IF v = 0 THEN 1 ELSE 0]}

GvoWideInputs ==
  [ adj : WideGraphs, dom : WideDomSizeVectors, ranks : WideClampRankVectors,
    maxC : {2, MaxCplx}, h : Heuristics, scale : {ScaleDen, ScaleDen * MaxScale} ]

GvoInitWide ==
  /\ gin \in GvoWideInputs
  /\ gv = VarContainer(gin)
  /\ varOrder = <<>>
  /\ lastClampRank = 0 - 1
  /\ gpc = "loop"
  /\ glast = NoStep
  /\ gclamped = {}
  /\ BtUnused
  /\ CUnused
  /\ SUnused
  /\ AUnused
  /\ DUnused
  /\ QUnused

SpecGVOWide == GvoInitWide /\ [][GvoNext]_allvars

\* ------------------------------------------------------------------------
\* TreeDecomp (built from the elimination order, the graph and the domain
\* sizes)
\* ------------------------------------------------------------------------
Range(sq) == {sq[i] : i \in 1 .. Len(sq)}

\* the nodes built without joining the neighbours of an eliminated variable
RECURSIVE TdNodes_NoFill(_, _, _, _)
TdNodes_NoFill(order, W, adj, clampedSet) ==
  IF order = <<>> THEN <<>>
  ELSE LET v   == Head(order)
           sep == W[v]
           W1  == [u \in DOMAIN W |-> IF u = v THEN {} ELSE W[u] \ {v}]
       IN <<[nodeVar |-> v, sepVars |-> sep,
             clampedVars |-> adj[v] \cap clampedSet]>>
          \o TdNodes_NoFill(Tail(order), W1, adj, clampedSet)

\* the nodes in elimination order; W is the working graph on the variables
\* of the order that are not eliminated yet
RECURSIVE TdNodes(_, _, _, _)
TdNodes(order, W, adj, clampedSet) ==
  IF order = <<>> THEN <<>>
  ELSE LET v   == Head(order)
           sep == W[v]
           W1  == [u \in DOMAIN W |->
                     IF u \in sep THEN ((W[u] \cup sep) \ {u}) \ {v}
                     ELSE IF u = v THEN {} ELSE W[u]]
       IN <<[nodeVar |-> v, sepVars |-> sep,
             clampedVars |-> adj[v] \cap clampedSet]>>
          \o TdNodes(Tail(order), W1, adj, clampedSet)

TreeDecomp(adj, order) ==
  LET clampedSet == DOMAIN adj \ Range(order)
  IN TdNodes(order, [v \in DOMAIN adj |-> adj[v] \ clampedSet], adj, clampedSet)

\* TreeDecomp::complexity as a product: the largest product of the domain
\* sizes of a node's nodeVar and sepVars, 1 when there is no node
TdComplexity(adj, order, dom) ==
  LET nodes == TreeDecomp(adj, order)
  IN MaxSet({1} \cup {dom[nodes[i].nodeVar] * ProdDom(nodes[i].sepVars, dom) :
                        i \in 1 .. Len(nodes)})

\* ------------------------------------------------------------------------
\* Claims about greedyVarOrder
\* ------------------------------------------------------------------------

\* C1: the order returned by greedyVarOrder yields a tree decomposition whose
\* complexity is at most maxComplexity, for every heuristic, selection
\* scale, clampRanks vector and sequence of RNG draws.
C1_ComplexityWithinBudget ==
  gpc = "done" => CplxLE(TdComplexity(gin.adj, varOrder, gin.dom), gin.maxC)

\* a returned order that eliminated after clamping and whose decomposition
\* uses the whole budget
C1_Witness ==
  /\ gpc = "done"
  /\ gclamped # {}
  /\ Len(varOrder) >= 2
  /\ TdComplexity(gin.adj, varOrder, gin.dom) = Pow2(gin.maxC)

Unprocessed(vs) == {v \in DOMAIN vs : ~vs[v].processed}

PreClamped == {v \in Vars : gin.ranks[v] < 0}

\* after glast.iter iterations exactly that many variables were processed,
\* each of them either appended to the order or clamped
C10_OnePerIteration ==
  /\ glast.iter = Len(varOrder) + Cardinality(gclamped)
  /\ Vars \ Unprocessed(gv) = PreClamped \cup Range(varOrder) \cup gclamped
  /\ \A i, j \in 1 .. Len(varOrder) : varOrder[i] = varOrder[j] => i = j
  /\ Range(varOrder) \cap gclamped = {}
  /\ Range(varOrder) \cap PreClamped = {}
  /\ gclamped \cap PreClamped = {}

\* the loop can leave the current state: it returns, or for every RNG draw
\* the branch it takes picks a variable that is still unprocessed
C10_CanStep ==
  \E m \in {minCostLower(gv, gin)} :
    \/ m.processed /\ Unprocessed(gv) = {}
    \/ /\ ~m.processed
       /\ CplxLE(m.complexity, gin.maxC)
       /\ \A rn \in RngNums : ElimBranch(gv, gin, rn).v \in Unprocessed(gv)
    \/ /\ ~m.processed
       /\ ~CplxLE(m.complexity, gin.maxC)
       /\ \A rn \in RngNums :
            ClampBranch(gv, gin, lastClampRank, rn).v \in Unprocessed(gv)

\* C10: greedyVarOrder terminates on every input; each iteration turns
\* exactly one unprocessed variable into a processed one and the loop ends
\* when none remain (an iteration is always possible before that, and the
\* iteration count is bounded by the number of variables); the returned
\* order holds every eliminated variable once and no variable with negative
\* clampRank or clamped during the run.
C10_Terminates ==
  /\ C10_OnePerIteration
  /\ gpc = "loop" => C10_CanStep
  /\ gpc = "done" => Unprocessed(gv) = {}

\* a run that both clamped and eliminated has returned
C10_Witness ==
  /\ gpc = "done"
  /\ gclamped # {}
  /\ varOrder # <<>>
  /\ \E v \in Vars : gin.ranks[v] < 0

\* ------------------------------------------------------------------------
\* Tables and Task (TableEntry of interface.h; Table, Task of orang)
\* ------------------------------------------------------------------------
MaxDom == 3
DomVals == 0 .. (MaxDom - 1)

RECURSIVE SumSeq(_)
SumSeq(sq) == IF sq = <<>> THEN 0 ELSE Head(sq) + SumSeq(Tail(sq))

RECURSIVE MinSet(_)
MinSet(S) ==
  LET x == CHOOSE y \in S : TRUE
  IN IF S = {x} THEN x ELSE MinOf(x, MinSet(S \ {x}))

\* the elements of a set of integers in ascending order
RECURSIVE SeqOfSet(_)
SeqOfSet(S) ==
  IF S = {} THEN <<>>
  ELSE LET m == MinSet(S) IN <<m>> \o SeqOfSet(S \ {m})

\* Table::Table: the scope is strictly ascending and no domain is empty
TableValid(T) ==
  /\ Len(T.domSizes) = Len(T.vars)
  /\ \A i, j \in 1 .. Len(T.vars) : i < j => T.vars[i] < T.vars[j]
  /\ \A i \in 1 .. Len(T.vars) : T.domSizes[i] >= 1

\* Task::Task: a variable has the same domain size in every table
TablesConsistent(tabs) ==
  \A s, t \in 1 .. Len(tabs) :
    \A i \in 1 .. Len(tabs[s].vars) : \A j \in 1 .. Len(tabs[t].vars) :
      tabs[s].vars[i] = tabs[t].vars[j] => tabs[s].domSizes[i] = tabs[t].domSizes[j]

TableVars(tabs) == UNION {Range(tabs[t].vars) : t \in 1 .. Len(tabs)}

TaskNumVars_NoMin(tabs, minVars) == MaxSet({0} \cup {v + 1 : v \in TableVars(tabs)})

\* Task::numVars: at least minVars, and one more than the largest index
TaskNumVars(tabs, minVars) == MaxOf(minVars, MaxSet({0} \cup {v + 1 : v \in TableVars(tabs)}))

\* Task::domSize: 1 for a variable no table mentions
TaskDomSize(tabs, v) ==
  IF v \in TableVars(tabs)
  THEN LET t == CHOOSE s \in 1 .. Len(tabs) : v \in Range(tabs[s].vars)
           i == CHOOSE k \in 1 .. Len(tabs[t].vars) : tabs[t].vars[k] = v
       IN tabs[t].domSizes[i]
  ELSE 1

\* Task: the tables, the derived domain sizes and the primal graph
Task(tabs, minVars) ==
  LET n == TaskNumVars(tabs, minVars)
      V == 0 .. (n - 1)
  IN [ numVars |-> n,
       tables  |-> tabs,
       dom     |-> [v \in V |-> TaskDomSize(tabs, v)],
       adj     |-> [v \in V |-> {w \in V \ {v} :
                       \E t \in 1 .. Len(tabs) : {v, w} \subseteq Range(tabs[t].vars)}] ]

\* Table: linear index of an assignment, s_1 = 1 and s_(i+1) = s_i * d_i
RECURSIVE LinIdx(_, _, _, _)
LinIdx(T, a, i, step) ==
  IF i > Len(T.vars) THEN 0
  ELSE a[T.vars[i]] * step + LinIdx(T, a, i + 1, step * T.domSizes[i])

TabAt(T, a) == T.values[1 + LinIdx(T, a, 1, 1)]

Assign(S, dom) == {a \in [S -> DomVals] : \A v \in S : a[v] < dom[v]}

Restrict(a, S) == [v \in S |-> a[v]]

Ext(a, v, i) == [w \in (DOMAIN a) \cup {v} |-> IF w = v THEN i ELSE a[w]]

\* ------------------------------------------------------------------------
\* TreeDecomp constructor checks
\* ------------------------------------------------------------------------
NoDuplicates(sq) == \A i, j \in 1 .. Len(sq) : sq[i] = sq[j] => i = j

\* TreeDecomp::TreeDecomp throws InvalidArgumentException for a repeated
\* variable, an index >= numVars, a short domain-size vector or an empty domain
TdInvalid(numVars, order, domSizes) ==
  \/ ~NoDuplicates(order)
  \/ \E i \in 1 .. Len(order) : order[i] < 0 \/ order[i] >= numVars
  \/ Len(domSizes) < numVars
  \/ \E i \in 1 .. Len(domSizes) : domSizes[i] = 0

\* ------------------------------------------------------------------------
\* Min-plus algebra, TableMerger, Task::baseTables, BucketTree
\* ------------------------------------------------------------------------
\* MinMarginalizer: the least value of a unary table T[0..D)
MinMarginalizer(slice) == MinSet(Range(slice))

\* Plus<Y>::combineIdentity
combineIdentity == 0

\* combine under min-plus over a list of tables, each read at the
\* projection of the assignment to its scope
RECURSIVE CombineAt(_, _)
CombineAt(fts, a) ==
  IF fts = <<>> THEN combineIdentity
  ELSE Head(fts).val[Restrict(a, Head(fts).scope)] + CombineAt(Tail(fts), a)

MergeScope_InputsOnly(outScope, fts) == UNION {fts[i].scope : i \in 1 .. Len(fts)}

MergeScope(outScope, fts) == outScope \cup UNION {fts[i].scope : i \in 1 .. Len(fts)}

Combined(scope, fts, dom) ==
  [scope |-> scope, val |-> [a \in Assign(scope, dom) |-> CombineAt(fts, a)]]

Marginalize(ft, v, dom) ==
  [ scope |-> ft.scope \ {v},
    val   |-> [a \in Assign(ft.scope \ {v}, dom) |->
                 MinMarginalizer([i \in 1 .. dom[v] |-> ft.val[Ext(a, v, i - 1)]])] ]

RECURSIVE ElimAll(_, _, _)
ElimAll(ft, S, dom) ==
  IF S = {} THEN ft
  ELSE LET v == MinSet(S) IN ElimAll(Marginalize(ft, v, dom), S \ {v}, dom)

\* TableMerger: combine over the union of the scopes, then eliminate the
\* variables outside outScope in ascending order
TableMerger(outScope, fts, dom) ==
  LET ms == MergeScope(outScope, fts)
  IN ElimAll(Combined(ms, fts, dom), ms \ outScope, dom)

Projection_AtZero(T, fixed, x0, dom) ==
  LET scope == Range(T.vars) \ fixed
  IN [ scope |-> scope,
       val   |-> [a \in Assign(scope, dom) |->
                    TabAt(T, [v \in Range(T.vars) |-> IF v \in scope THEN a[v] ELSE 0])] ]

\* a table with the clamped variables of the node fixed to their x0 values
Projection(T, fixed, x0, dom) ==
  LET scope == Range(T.vars) \ fixed
  IN [ scope |-> scope,
       val   |-> [a \in Assign(scope, dom) |->
                    TabAt(T, [v \in Range(T.vars) |-> IF v \in scope THEN a[v] ELSE x0[v]])] ]

\* a table goes to every bucket whose variables cover its scope
InBucket_ScopeOnly(T, n) ==
  Range(T.vars) \subseteq ({n.nodeVar} \cup n.sepVars \cup n.clampedVars)

\* a table belongs to the bucket of the node variable it mentions when the
\* rest of its scope lies in the separator and the clamped variables
InBucket(T, n) ==
  /\ n.nodeVar \in Range(T.vars)
  /\ Range(T.vars) \subseteq ({n.nodeVar} \cup n.sepVars \cup n.clampedVars)

\* Task::baseTables
BaseTables(task, n, x0) ==
  LET mine == SelectSeq(task.tables, LAMBDA T : InBucket(T, n))
  IN [i \in 1 .. Len(mine) |-> Projection(mine[i], n.clampedVars, x0, task.dom)]

\* parent of node j: the node of the earliest later-eliminated separator
\* variable, 0 for a root
Parent(nodes, j) ==
  LET later == {k \in (j + 1) .. Len(nodes) : nodes[k].nodeVar \in nodes[j].sepVars}
  IN IF later = {} THEN 0 ELSE MinSet(later)

\* upward pass: the node tables and the lambda message of every node, in
\* elimination order (children before parents)
RECURSIVE Upward(_, _, _, _, _)
Upward(task, nodes, x0, i, acc) ==
  IF i > Len(nodes) THEN acc
  ELSE LET n    == nodes[i]
           kids == SeqOfSet({j \in 1 .. (i - 1) : Parent(nodes, j) = i})
           tabs == BaseTables(task, n, x0) \o [k \in 1 .. Len(kids) |-> acc[kids[k]].lambda]
           full == Combined({n.nodeVar} \cup n.sepVars, tabs, task.dom)
           lam  == Marginalize(full, n.nodeVar, task.dom)
       IN Upward(task, nodes, x0, i + 1,
                 Append(acc, [lambda |-> lam, tables |-> tabs, full |-> full]))

\* problemValue from the root values alone
TaskProblemValue_RootsOnly(task, rootValues, x0, clampedSet) == SumSeq(rootValues)

\* Task::problemValue: the root values combined with the tables whose scope
\* holds clamped variables only, read at x0
TaskProblemValue(task, rootValues, x0, clampedSet) ==
  LET only == SelectSeq(task.tables, LAMBDA T : Range(T.vars) \subseteq clampedSet)
  IN SumSeq(rootValues) + SumSeq([i \in 1 .. Len(only) |-> TabAt(only[i], x0)])

EmptyAssign == [v \in {} |-> 0]

BtProblemValueOf(task, nodes, up, x0) ==
  LET roots == SeqOfSet({j \in 1 .. Len(nodes) : Parent(nodes, j) = 0})
  IN TaskProblemValue(task, [k \in 1 .. Len(roots) |-> up[roots[k]].lambda.val[EmptyAssign]],
                      x0, DOMAIN task.adj \ {nodes[j].nodeVar : j \in 1 .. Len(nodes)})

\* ------------------------------------------------------------------------
\* MinSolutionSet and the downward pass
\* ------------------------------------------------------------------------
LexLess(x, y) ==
  \E i \in DOMAIN x : x[i] < y[i] /\ \A j \in DOMAIN x : j < i => x[j] = y[j]

\* MinSolutionSet order: by value, equal values by the assignment vector
SolLess(s, t) ==
  \/ s.value < t.value
  \/ s.value = t.value /\ LexLess(s.solution, t.solution)

RECURSIVE SortSols(_)
SortSols(S) ==
  IF S = {} THEN <<>>
  ELSE LET m == CHOOSE s \in S : \A t \in S \ {s} : SolLess(s, t)
       IN <<m>> \o SortSols(S \ {m})

\* MinSolutionSet keeps at most maxSolutions entries, the first in its order
SolutionSet(S, maxSolutions) ==
  LET sorted == SortSols(S)
  IN SubSeq(sorted, 1, MinOf(maxSolutions, Len(sorted)))

\* SolvableMinMarginalizer::solve: every solution is extended by every value
\* of the node variable, its value raised by the distance of that table
\* entry from the least entry of the slice selected by the solution
MarginalizerSolve(full, v, sep, dom, sols, maxSolutions) ==
  LET ctx(s)   == Restrict(s.solution, sep)
      entry(s, x) == full.val[Ext(ctx(s), v, x)]
      least(s) == MinMarginalizer([i \in 1 .. dom[v] |-> entry(s, i - 1)])
  IN SolutionSet({ [ value    |-> s.value + (entry(s, x) - least(s)),
                     solution |-> [s.solution EXCEPT ![v] = x] ] :
                       s \in Range(sols), x \in 0 .. (dom[v] - 1) },
                 maxSolutions)

\* downward pass: parents before children, that is against elimination order
RECURSIVE Downward(_, _, _, _, _, _)
Downward(nodes, up, dom, i, sols, maxSolutions) ==
  IF i = 0 THEN sols
  ELSE Downward(nodes, up, dom, i - 1,
                MarginalizerSolve(up[i].full, nodes[i].nodeVar, nodes[i].sepVars,
                                  dom, sols, maxSolutions),
                maxSolutions)

\* BucketTree::BucketTree: the upward pass runs in the constructor
BucketTree(task, order, x0, solvable, keepNodeTables) ==
  LET nodes == TreeDecomp(task.adj, order)
      up    == Upward(task, nodes, x0, 1, <<>>)
  IN [ task           |-> task,
       nodes          |-> nodes,
       x0             |-> x0,
       solvable       |-> solvable,
       keepNodeTables |-> keepNodeTables,
       up             |-> up,
       problemValue   |-> BtProblemValueOf(task, nodes, up, x0) ]

\* BucketTree::solve for the min-plus algebra
BtSolveMin(tree, maxSolutions) ==
  Downward(tree.nodes, tree.up, tree.task.dom, Len(tree.nodes),
           <<[value |-> 0, solution |-> tree.x0]>>, maxSolutions)

\* ------------------------------------------------------------------------
\* Reference values by enumeration
\* ------------------------------------------------------------------------
Energy(task, a) == SumSeq([t \in 1 .. Len(task.tables) |-> TabAt(task.tables[t], a)])

\* the full assignments that agree with x0 on the clamped variables
Agreeing(task, order, x0) ==
  {a \in Assign(DOMAIN task.adj, task.dom) :
     \A c \in DOMAIN task.adj \ Range(order) : a[c] = x0[c]}

BruteForceMin(task, order, x0) ==
  MinSet({Energy(task, a) : a \in Agreeing(task, order, x0)})
\* ------------------------------------------------------------------------
\* Log-sum-product algebra, sampling and node tables
\* ------------------------------------------------------------------------
\* A value of this algebra is kept as a weight: the integer w stands for the
\* real ln(w), so that combine (a sum of logarithms) is a product and the
\* marginaliser (the logarithm of a sum of exponentials) is a sum.  A table
\* value e of a problem instance stands for the real (e + WeightShift) * ln 2.
WeightShift == 2

SeqOfFn(f) == [i \in 1 .. Cardinality(DOMAIN f) |-> f[i - 1]]

Weight(e) == Pow2(e + WeightShift)

WeightTable(T) == [T EXCEPT !.values = [i \in 1 .. Len(T.values) |-> Weight(T.values[i])]]

WeightTask(task) ==
  [task EXCEPT !.tables = [t \in 1 .. Len(task.tables) |-> WeightTable(task.tables[t])]]

RECURSIVE ProdSeq(_)
ProdSeq(sq) == IF sq = <<>> THEN 1 ELSE Head(sq) * ProdSeq(Tail(sq))

\* the values of a table in packed order: the first variable of the scope
\* varies fastest
PackedIndex(a, dom) ==
  SumSeq([k \in 1 .. Cardinality(DOMAIN a) |->
            LET sc == SeqOfSet(DOMAIN a)
            IN a[sc[k]] * ProdSeq([j \in 1 .. (k - 1) |-> dom[sc[j]]])])

PackedValues(ft, dom) ==
  [i \in 1 .. Cardinality(Assign(ft.scope, dom)) |->
     ft.val[CHOOSE a \in Assign(ft.scope, dom) : PackedIndex(a, dom) = i - 1]]

LogSumMarginalizer_FirstEntry(mrgTable) == mrgTable[1]

\* LogSumMarginalizer: the sum over the whole of the table it is given
LogSumMarginalizer(mrgTable) == SumSeq(mrgTable)

RECURSIVE LspCombineAt(_, _)
LspCombineAt(fts, a) ==
  IF fts = <<>> THEN 1
  ELSE Head(fts).val[Restrict(a, Head(fts).scope)] * LspCombineAt(Tail(fts), a)

LspCombined(scope, fts, dom) ==
  [scope |-> scope, val |-> [a \in Assign(scope, dom) |-> LspCombineAt(fts, a)]]

LspMarginalize(ft, v, dom) ==
  [ scope |-> ft.scope \ {v},
    val   |-> [a \in Assign(ft.scope \ {v}, dom) |->
                 LogSumMarginalizer([i \in 1 .. dom[v] |-> ft.val[Ext(a, v, i - 1)]])] ]

RECURSIVE LspElimAll(_, _, _)
LspElimAll(ft, S, dom) ==
  IF S = {} THEN ft
  ELSE LET v == MinSet(S) IN LspElimAll(LspMarginalize(ft, v, dom), S \ {v}, dom)

\* TableMerger under the log-sum-product algebra
LspTableMerger(outScope, fts, dom) ==
  LET ms == MergeScope(outScope, fts)
  IN LspElimAll(LspCombined(ms, fts, dom), ms \ outScope, dom)

\* upward pass: base tables, child messages and the lambda message per node
RECURSIVE LspUpward(_, _, _, _, _)
LspUpward(task, nodes, x0, i, acc) ==
  IF i > Len(nodes) THEN acc
  ELSE LET n    == nodes[i]
           kids == SeqOfSet({j \in 1 .. (i - 1) : Parent(nodes, j) = i})
           base == BaseTables(task, n, x0)
           tabs == base \o [k \in 1 .. Len(kids) |-> acc[kids[k]].lambda]
           full == LspCombined({n.nodeVar} \cup n.sepVars, tabs, task.dom)
           lam  == LspMarginalize(full, n.nodeVar, task.dom)
       IN LspUpward(task, nodes, x0, i + 1,
                    Append(acc, [lambda |-> lam, base |-> base, kids |-> kids,
                                 tables |-> tabs, full |-> full]))

\* Task::problemValue under the log-sum-product algebra
LspProblemValue(task, rootValues, x0, clampedSet) ==
  LET only == SelectSeq(task.tables, LAMBDA T : Range(T.vars) \subseteq clampedSet)
  IN ProdSeq(rootValues) * ProdSeq([i \in 1 .. Len(only) |-> TabAt(only[i], x0)])

\* downward pass for the node tables: the pi message of a node merges the
\* tables of its parent other than the node's own lambda message onto the
\* separator of the node
RECURSIVE LspNodeTables(_, _, _, _, _)
LspNodeTables(task, nodes, up, i, acc) ==
  IF i = 0 THEN acc
  ELSE LET p      == Parent(nodes, i)
           sibs   == SelectSeq(up[p].kids, LAMBDA k : k # i)
           others == up[p].base \o [k \in 1 .. Len(sibs) |-> up[sibs[k]].lambda]
                       \o acc[p].pi
           pi     == IF p = 0 THEN <<>>
                     ELSE <<LspTableMerger(nodes[i].sepVars, others, task.dom)>>
           nt     == [nodeVar |-> nodes[i].nodeVar, sepVars |-> nodes[i].sepVars,
                      pi |-> pi, tables |-> up[i].tables \o pi]
       IN LspNodeTables(task, nodes, up, i - 1,
                        [k \in (DOMAIN acc) \cup {i} |-> IF k = i THEN nt ELSE acc[k]])

\* BucketTree::BucketTree for the log-sum-product algebra
LspBucketTree(task0, order, x0, solvable, keepNodeTables) ==
  LET task  == WeightTask(task0)
      nodes == TreeDecomp(task.adj, order)
      up    == LspUpward(task, nodes, x0, 1, <<>>)
      roots == SeqOfSet({j \in 1 .. Len(nodes) : Parent(nodes, j) = 0})
      nts   == LspNodeTables(task, nodes, up, Len(nodes), [k \in {} |-> 0])
  IN [ task           |-> task,
       nodes          |-> nodes,
       x0             |-> x0,
       solvable       |-> solvable,
       keepNodeTables |-> keepNodeTables,
       up             |-> up,
       nodeTables     |-> IF keepNodeTables THEN [k \in 1 .. Len(nodes) |-> nts[k]] ELSE <<>>,
       problemValue   |->
         LspProblemValue(task, [k \in 1 .. Len(roots) |-> up[roots[k]].lambda.val[EmptyAssign]],
                         x0, DOMAIN task.adj \ Range(order)) ]

\* ------------------------------------------------------------------------
\* boost::mt19937 and the generator built on it
\* ------------------------------------------------------------------------
\* the engine after seed(s)
MtSeed(s) == [seed |-> s, pos |-> 0]

\* the next output of the engine as a draw rn / RngDen in [0, 1): a fixed
\* function of the seed and of the number of outputs taken since seeding
MtDraw(eng) == (eng.seed + eng.pos) % RngDen

MtNext(eng) == [eng EXCEPT !.pos = @ + 1]

\* SolvableLogSumMarginalizer::solve: the value of the node variable is the
\* first whose cumulative weight, over the total of the slice selected by
\* the solution, exceeds the draw
LogSumSolve(full, v, sep, dom, sol, rn) ==
  LET ctx      == Restrict(sol, sep)
      w(x)     == full.val[Ext(ctx, v, x)]
      cum(x)   == SumSeq([i \in 1 .. (x + 1) |-> w(i - 1)])
      total    == cum(dom[v] - 1)
      x        == MinSet({y \in 0 .. (dom[v] - 1) : cum(y) * RngDen > rn * total})
  IN [sol EXCEPT ![v] = x]

\* BucketTree::solve for sampling: parents before children, one draw a node
RECURSIVE LspSolve(_, _, _, _)
LspSolve(tree, i, sol, eng) ==
  IF i = 0 THEN [solution |-> sol, eng |-> eng]
  ELSE LspSolve(tree, i - 1,
                LogSumSolve(tree.up[i].full, tree.nodes[i].nodeVar, tree.nodes[i].sepVars,
                            tree.task.dom, sol, MtDraw(eng)),
                MtNext(eng))

RECURSIVE DrawSamples_FromZero(_, _, _, _)
DrawSamples_FromZero(tree, n, rows, eng) ==
  IF n = 0 THEN [samples |-> rows, eng |-> eng]
  ELSE LET s == LspSolve(tree, Len(tree.nodes), [v \in DOMAIN tree.x0 |-> 0], eng)
       IN DrawSamples_FromZero(tree, n - 1, Append(rows, SeqOfFn(s.solution)), s.eng)

\* sampleNum calls of BucketTree::solve, each written as a row of samples
RECURSIVE DrawSamples(_, _, _, _)
DrawSamples(tree, n, rows, eng) ==
  IF n = 0 THEN [samples |-> rows, eng |-> eng]
  ELSE LET s == LspSolve(tree, Len(tree.nodes), tree.x0, eng)
       IN DrawSamples(tree, n - 1, Append(rows, SeqOfFn(s.solution)), s.eng)


\* ------------------------------------------------------------------------
\* Problem instances
\* ------------------------------------------------------------------------
TabScalar == [vars |-> <<>>, domSizes |-> <<>>, values |-> <<5>>]
TabU0 == [vars |-> <<0>>, domSizes |-> <<2>>, values |-> <<1, 0 - 1>>]
TabU1 == [vars |-> <<1>>, domSizes |-> <<2>>, values |-> <<0 - 2, 2>>]
TabU2 == [vars |-> <<2>>, domSizes |-> <<3>>, values |-> <<1, 0, 0>>]
TabP01 == [vars |-> <<0, 1>>, domSizes |-> <<2, 2>>, values |-> <<1, 0 - 1, 0 - 1, 1>>]
TabP12 == [vars |-> <<1, 2>>, domSizes |-> <<2, 2>>, values |-> <<0 - 1, 1, 1, 0 - 1>>]
TabP02 == [vars |-> <<0, 2>>, domSizes |-> <<2, 2>>, values |-> <<0, 2, 1, 0>>]
TabQ12 == [vars |-> <<1, 2>>, domSizes |-> <<2, 3>>, values |-> <<0, 3, 1, 1, 2, 0>>]
TabZeroDom == [vars |-> <<1>>, domSizes |-> <<0>>, values |-> <<>>]
TabDescending == [vars |-> <<1, 0>>, domSizes |-> <<2, 2>>, values |-> <<0, 0, 0, 0>>]

\* table lists a Task accepts
GoodTables ==
  { <<>>,
    <<TabP01, TabP12>>,
    <<TabU0, TabP01, TabP12, TabP02>>,
    <<TabScalar, TabU1, TabQ12, TabU2>>,
    <<TabP01, TabU1, TabP01>>,
    <<TabU0, TabU2>> }

\* table lists rejected by Table::Table or by Task::Task
BadTables ==
  { <<TabU0, TabZeroDom>>, <<TabDescending>>, <<TabP12, TabQ12>> }

MinVarsSet == {0, NumVars}

MaxSolutions == 2

\* order sequences, valid or not: entries 0 .. NumVars, length <= NumVars
RECURSIVE SeqsUpTo(_, _)
SeqsUpTo(S, n) ==
  IF n = 0 THEN {<<>>}
  ELSE LET shorter == SeqsUpTo(S, n - 1)
       IN shorter \cup {Append(sq, x) : sq \in {t \in shorter : Len(t) = n - 1}, x \in S}

OrderSeqs == SeqsUpTo(0 .. NumVars, NumVars)

ZeroVector(task) == [v \in DOMAIN task.adj |-> 0]

\* ------------------------------------------------------------------------
\* BucketTree as an object: construction, problemValue, solve, nodeTables
\* ------------------------------------------------------------------------
MaxCalls == 2

NoTree == [built |-> FALSE]

NoCall == [op |-> "none", ok |-> TRUE, calls |-> 0]

BtInputs ==
  { in \in [ tables : GoodTables, minVars : MinVarsSet, order : OrderSeqs,
             x0pick : [0 .. (NumVars - 1) -> DomVals],
             solvable : BOOLEAN, keepNodeTables : BOOLEAN,
             maxSolutions : 1 .. MaxSolutions ] :
      \E task \in {Task(in.tables, in.minVars)} :
         /\ ~TdInvalid(task.numVars, in.order, SeqOfFn(task.dom))
         /\ \A v \in 0 .. (NumVars - 1) :
              in.x0pick[v] < (IF v < task.numVars THEN task.dom[v] ELSE 1) }

BtTask == Task(btin.tables, btin.minVars)

BtX0 == [v \in DOMAIN BtTask.adj |-> btin.x0pick[v]]

BtInit ==
  /\ btin \in BtInputs
  /\ bt = NoTree
  /\ btlog = NoCall
  /\ GvoUnused
  /\ CUnused
  /\ SUnused
  /\ AUnused
  /\ DUnused
  /\ QUnused

SolveAvailable_Always(tree) == TRUE

\* BucketTree::solve is available on a tree built with solvable = true
SolveAvailable(tree) == tree.solvable

\* BucketTree::nodeTables is available on a tree built with keepNodeTables
NodeTablesAvailable(tree) == tree.keepNodeTables

BtConstruct ==
  /\ ~bt.built
  /\ bt' = [BucketTree(BtTask, btin.order, BtX0, btin.solvable, btin.keepNodeTables)
              EXCEPT !.task = "btin"] @@ [built |-> TRUE]
  /\ btlog' = [op |-> "construct", ok |-> TRUE, calls |-> 0]
  /\ UNCHANGED <<btin, gvars, cvars, svars, avars, dvars, qvars>>

BtProblemValue ==
  /\ bt.built
  /\ btlog.calls < MaxCalls
  /\ btlog' = [op |-> "problemValue", ok |-> TRUE, calls |-> btlog.calls + 1,
               value |-> bt.problemValue]
  /\ UNCHANGED <<btin, bt, gvars, cvars, svars, avars, dvars, qvars>>

BtSolve ==
  /\ bt.built
  /\ btlog.calls < MaxCalls
  /\ IF SolveAvailable(bt)
     THEN btlog' = [op |-> "solve", ok |-> TRUE, calls |-> btlog.calls + 1,
                    value |-> BtSolveMin([bt EXCEPT !.task = BtTask], btin.maxSolutions)]
     ELSE btlog' = [op |-> "solve", ok |-> FALSE, calls |-> btlog.calls + 1,
                    value |-> "OperationUnavailable"]
  /\ UNCHANGED <<btin, bt, gvars, cvars, svars, avars, dvars, qvars>>

BtNodeTables ==
  /\ bt.built
  /\ btlog.calls < MaxCalls
  /\ IF NodeTablesAvailable(bt)
     THEN btlog' = [op |-> "nodeTables", ok |-> TRUE, calls |-> btlog.calls + 1,
                    value |-> [i \in 1 .. Len(bt.nodes) |->
                                 [ nodeVar |-> bt.nodes[i].nodeVar,
                                   sepVars |-> bt.nodes[i].sepVars,
                                   tables  |-> bt.up[i].tables ]]]
     ELSE btlog' = [op |-> "nodeTables", ok |-> FALSE, calls |-> btlog.calls + 1,
                    value |-> "OperationUnavailable"]
  /\ UNCHANGED <<btin, bt, gvars, cvars, svars, avars, dvars, qvars>>

BtNext == BtConstruct \/ BtProblemValue \/ BtSolve \/ BtNodeTables

SpecBT == BtInit /\ [][BtNext]_allvars

\* ------------------------------------------------------------------------
\* C entry points (src/c/interface.cc) and MemPool (src/c/mempool.cc)
\* ------------------------------------------------------------------------
MAX_ERROR_LENGTH == 200

\* the messages the entry points format with snprintf into
\* errMsg[MAX_ERROR_LENGTH] are at most this long; their literal messages
\* are shorter
LongestFixedMsg == MAX_ERROR_LENGTH - 1

\* lengths of the messages carried by exceptions of the library
LibMsgLens == {30, 250}

\* snprintf(errorMessage, MAX_ERROR_LENGTH, ...): the length of the stored
\* string, which is cut to leave room for the terminator
snprintfLen(raw) == MinOf(raw, MAX_ERROR_LENGTH - 1)

\* the catch clauses of an entry point
Caught(exc) == exc \in {"Errors", "std::bad_alloc", "orang::Exception"}

\* MemPool::malloc on success: the block is recorded with its size
MemPoolMalloc(pool, block, size) == Append(pool, [block |-> block, size |-> size])

\* MemPool::release
MemPoolRelease(pool) == <<>>

\* MemPool::~MemPool frees the recorded blocks whose size is not zero
MemPoolFreed(pool) == {pool[i].block : i \in {j \in 1 .. Len(pool) : pool[j].size # 0}}

MemPoolBlocks(pool) == {pool[i].block : i \in 1 .. Len(pool)}

\* leaving the entry point destroys its MemPool: what each output pointer
\* of the caller then refers to
LeaveCall(r) ==
  [r EXCEPT !.ptr = [p \in DOMAIN r.ptr |->
                       IF r.ptr[p] \in MemPoolFreed(r.pool) THEN "freed" ELSE r.ptr[p]],
            !.freed = MemPoolFreed(r.pool),
            !.leaked = MemPoolBlocks(r.pool) \ MemPoolFreed(r.pool),
            !.pool = <<>>]

\* an exception thrown inside the try block: handled by a catch clause,
\* which formats the message and returns 1, or leaving the entry point
Raise(r, stage, exc, err, rawLen) ==
  IF Caught(exc)
  THEN LeaveCall([r EXCEPT !.status = 1, !.stage = stage, !.err = err,
                           !.msgLen = snprintfLen(rawLen)])
  ELSE LeaveCall([r EXCEPT !.outcome = "escaped", !.status = 0 - 1, !.stage = stage,
                           !.err = err])

\* an access through an invalid pointer
Crash(r, stage) ==
  LeaveCall([r EXCEPT !.outcome = "crash", !.status = 0 - 1, !.stage = stage])

Return0(r) == LeaveCall([r EXCEPT !.status = 0, !.stage = "done"])

COutPtrs(fn) ==
  CASE fn = "optimize" -> {"energies", "states"}
    [] fn = "sample" -> {"samples", "marginals"}
    [] OTHER -> {"variableOrder"}

\* the state on entry: nothing written, the caller's pointers as they were
CallStart(in) ==
  [ outcome |-> "returned", status |-> 0, err |-> "none", msgLen |-> 0,
    stage |-> "args",
    ptr |-> [p \in COutPtrs(in.fn) |-> IF p \in in.nulls THEN "noarg" ELSE "unset"],
    written |-> {}, pool |-> <<>>, freed |-> {}, leaked |-> {},
    energies |-> <<>>, states |-> <<>>, order |-> <<>>,
    len |-> 0, varNum |-> 0, ub |-> FALSE, decomp |-> FALSE, tree |-> FALSE,
    logZ |-> 0, samples |-> <<>>, marginals |-> <<>>,
    defaultRngEngine |-> in.defaultRngEngine, seededRngEngine |-> in.seededRngEngine ]

\* validateVarOrder without the seen[] test
validateVarOrder_NoSeen(vo, numVars) ==
  \A i \in 1 .. Len(vo) : vo[i] >= 0 /\ vo[i] < numVars

\* validateVarOrder returns (TRUE) or throws Errors (FALSE); an int below
\* zero is a Var above every index
validateVarOrder(vo, numVars) ==
  \A i \in 1 .. Len(vo) :
    /\ vo[i] >= 0 /\ vo[i] < numVars
    /\ \A j \in 1 .. (i - 1) : vo[j] # vo[i]

\* the length arguments as the caller passes them
CLen(in, name, sq) == IF in.negLen = name THEN 0 - 1 ELSE Len(sq)

\* x0 as filled from initState: DomIndexVector x0(numVars), then the copy loop
X0Of(in, task) ==
  [v \in DOMAIN task.adj |->
     IF v < CLen(in, "initState_len", in.initState) THEN in.initState[v + 1] ELSE 0]

\* the test of the copy loop: x0[i] > task.domSize(i)
X0Rejected(initState_len, initState, task) ==
  \E i \in 0 .. (initState_len - 1) : initState[i + 1] > task.dom[i]

ComplexityExceeded_GE(cplx, maxComplexity) ==
  maxComplexity < 0 \/ cplx >= Pow2(maxComplexity)

\* decomp.complexity() > maxComplexity, on the product of the domain sizes
ComplexityExceeded(cplx, maxComplexity) == ~CplxLE(cplx, maxComplexity)

\* a clamped variable of some table whose x0 value is no domain index: the
\* bucket tree reads the table outside the slice of that variable
ReadsOutside(task, order, x0) ==
  \E v \in (DOMAIN task.adj \ Range(order)) \cap TableVars(task.tables) : x0[v] >= task.dom[v]

\* the part optimize and sample share: createTables, the Task, the order
\* and the initial state.  The result has stage "checked" when all passed.
CheckInputs(in, r1) ==
  IF in.negLen = "tables_len"
  THEN Raise(r1, "tables", "std::length_error", "length_error", 0)
  ELSE IF \E t \in 1 .. Len(in.tables) : ~TableValid(in.tables[t])
  THEN Raise(r1, "tables", "orang::Exception", "invalid_argument", in.libMsgLen)
  ELSE IF ~TablesConsistent(in.tables)
  THEN Raise(r1, "task", "orang::Exception", "invalid_argument", in.libMsgLen)
  ELSE IF in.negLen = "variableOrder_len"
  THEN Raise(r1, "order", "std::length_error", "length_error", 0)
  ELSE LET task == Task(in.tables, in.minVars)
           order == in.variableOrder
           ilen == CLen(in, "initState_len", in.initState)
       IN IF ~validateVarOrder(order, task.numVars)
          THEN Raise(r1, "order", "Errors", "invalid_argument", LongestFixedMsg)
          ELSE IF ilen > 0 /\ ilen # task.numVars
          THEN Raise(r1, "x0", "Errors", "invalid_argument", LongestFixedMsg)
          ELSE IF X0Rejected(ilen, in.initState, task)
          THEN Raise(r1, "x0", "Errors", "invalid_argument", LongestFixedMsg)
          ELSE IF TdInvalid(task.numVars, order, SeqOfFn(task.dom))
          THEN Raise(r1, "decomp", "orang::Exception", "invalid_argument", in.libMsgLen)
          ELSE IF ComplexityExceeded(TdComplexity(task.adj, order, task.dom),
                                     in.maxComplexity)
          THEN Raise([r1 EXCEPT !.decomp = TRUE], "complexity", "Errors",
                     "complexity", LongestFixedMsg)
          ELSE [r1 EXCEPT !.decomp = TRUE, !.stage = "checked"]

OptimizeEnergies_NoBase(baseValue, sols) == [i \in 1 .. Len(sols) |-> sols[i].value]

\* *valueOffsetData++ = baseValue + s.value
OptimizeEnergies(baseValue, sols) == [i \in 1 .. Len(sols) |-> baseValue + sols[i].value]

\* the tail of optimize: the bucket tree and the outputs
OptimizeOutputs(in, r2, task, tree) ==
  LET r3 == [r2 EXCEPT !.tree = TRUE]
      baseValue == tree.problemValue
  IN IF ~(in.maxSolutions > 0)
     THEN LET r4 == [r3 EXCEPT !.written = {"energies_len"}, !.len = 1]
          IN IF "energies" \in in.mallocFails
             THEN Crash(r4, "alloc")
             ELSE Return0([r4 EXCEPT !.ptr.energies = "energies", !.energies = <<baseValue>>])
     ELSE LET sols == BtSolveMin(tree, in.maxSolutions)
              numSolutions == Len(sols)
              r4 == [r3 EXCEPT !.written = {"energies_len"}, !.len = numSolutions]
          IN IF "energies" \in in.mallocFails
             THEN Raise(r4, "alloc", "Errors", "out_of_memory", LongestFixedMsg)
             ELSE LET r5 == [r4 EXCEPT
                               !.pool = MemPoolMalloc(@, "energies", numSolutions * 8),
                               !.ptr.energies = "energies",
                               !.energies = OptimizeEnergies(baseValue, sols),
                               !.written = @ \cup {"varNum"},
                               !.varNum = task.numVars]
                  IN IF "states" \in in.mallocFails
                     THEN Raise(r5, "alloc", "Errors", "out_of_memory", LongestFixedMsg)
                     ELSE Return0([r5 EXCEPT
                            !.pool = MemPoolRelease(
                                       MemPoolMalloc(@, "states",
                                                     task.numVars * numSolutions * 4)),
                            !.ptr.states = "states",
                            !.states = [i \in 1 .. numSolutions |-> sols[i].solution]])

\* what a build may do when the bucket tree reads a table outside its values
OutsideRead(in, r2) ==
  IF in.ubCrash THEN Crash([r2 EXCEPT !.ub = TRUE], "tree")
  ELSE Return0([r2 EXCEPT !.ub = TRUE, !.tree = TRUE])

\* int optimize(...)
optimize(in) ==
  LET r0 == CallStart(in)
  IN IF in.nulls # {}
     THEN Raise(r0, "args", "Errors", "invalid_argument", LongestFixedMsg)
     ELSE LET r2 == CheckInputs(in, [r0 EXCEPT !.ptr = [p \in DOMAIN r0.ptr |-> "null"]])
          IN IF r2.stage # "checked" THEN r2
             ELSE LET task == Task(in.tables, in.minVars)
                      x0 == X0Of(in, task)
                  IN IF ReadsOutside(task, in.variableOrder, x0)
                     THEN OutsideRead(in, r2)
                     ELSE OptimizeOutputs(in, r2, task,
                            BucketTree(task, in.variableOrder, x0,
                                       in.maxSolutions > 0, FALSE))

\* createMarginals: the number of marginals, one unary marginal per node
\* and one pairwise marginal per separator variable
NumMarginals(nodes) ==
  SumSeq([i \in 1 .. Len(nodes) |-> Cardinality(nodes[i].sepVars) + 1])

\* Normalizer: exp(x - logPf), kept as the weight and the weight of logPf
Normalized(mTable, dom) ==
  [ values |-> PackedValues(mTable, dom),
    norm   |-> LogSumMarginalizer(PackedValues(mTable, dom)) ]

\* createMarginals: the marginals of one node, the unary one first
NodeMarginals(nt, dom) ==
  LET seps == SeqOfSet(nt.sepVars)
      one  == Normalized(LspTableMerger({nt.nodeVar}, nt.tables, dom), dom)
  IN <<[vars |-> <<nt.nodeVar>>, values |-> one.values, norm |-> one.norm]>>
     \o [k \in 1 .. Len(seps) |->
           LET two == Normalized(LspTableMerger({nt.nodeVar, seps[k]}, nt.tables, dom), dom)
           IN [vars |-> SeqOfSet({nt.nodeVar, seps[k]}), values |-> two.values,
               norm |-> two.norm]]

RECURSIVE createMarginals(_, _)
createMarginals(nodeTables, dom) ==
  IF nodeTables = <<>> THEN <<>>
  ELSE NodeMarginals(Head(nodeTables), dom) \o createMarginals(Tail(nodeTables), dom)

Reseed_Keep(eng, seed) == eng

\* "if (seed >= 0) seededRngEngine.seed(seed)": seededRng refers to the
\* engine, so that it draws from the reseeded engine
Reseed(eng, seed) == IF seed >= 0 THEN MtSeed(seed) ELSE eng

\* the engine behind the generator the call samples with
SampleEngine(in, r) == IF in.seed >= 0 THEN r.seededRngEngine ELSE r.defaultRngEngine

\* the tail of sample: logZ, the samples and the marginals
SampleOutputs(in, r2, task, tree) ==
  LET r3 == [r2 EXCEPT !.tree = TRUE, !.written = {"logZ"}, !.logZ = tree.problemValue]
      solvable == in.maxSolutions > 0
      r4 == IF solvable
            THEN [r3 EXCEPT !.written = @ \cup {"varNum"}, !.varNum = task.numVars]
            ELSE r3
      drawn == DrawSamples(tree, in.maxSolutions, <<>>, SampleEngine(in, r4))
      r5 == IF solvable
            THEN [r4 EXCEPT
                    !.pool = MemPoolMalloc(@, "samples", task.numVars * in.maxSolutions * 4),
                    !.ptr.samples = "samples", !.len = in.maxSolutions,
                    !.samples = drawn.samples,
                    !.seededRngEngine = IF in.seed >= 0 THEN drawn.eng ELSE @,
                    !.defaultRngEngine = IF in.seed >= 0 THEN @ ELSE drawn.eng]
            ELSE r4
      numMarginals == NumMarginals(tree.nodes)
      r6 == [r5 EXCEPT !.pool = MemPoolMalloc(@, "marginals", numMarginals * 24),
                       !.ptr.marginals = "marginals"]
  IN IF solvable /\ "samples" \in in.mallocFails
     THEN Raise(r4, "alloc", "Errors", "out_of_memory", LongestFixedMsg)
     ELSE IF in.returnMarginals = 0
     THEN Return0([r5 EXCEPT !.pool = MemPoolRelease(@)])
     ELSE IF "marginals" \in in.mallocFails
     THEN Raise(r5, "alloc", "Errors", "out_of_memory", LongestFixedMsg)
     ELSE IF numMarginals > 0 /\ "marginal_vars" \in in.mallocFails
     THEN Raise(r6, "alloc", "Errors", "out_of_memory", LongestFixedMsg)
     ELSE Return0([r6 EXCEPT !.pool = MemPoolRelease(@),
                             !.written = @ \cup {"marginals_len"},
                             !.marginals = createMarginals(tree.nodeTables, tree.task.dom)])

\* int sample(...); sampleNum is the field maxSolutions of the input, and
\* the two static engines are the fields defaultRngEngine and seededRngEngine
sample(in) ==
  LET r0 == CallStart(in)
  IN IF \/ in.nulls \cap {"logZ", "samples", "varNum"} # {}
        \/ in.returnMarginals # 0 /\ in.nulls \cap {"marginals", "marginals_len"} # {}
     THEN Raise(r0, "args", "Errors", "invalid_argument", LongestFixedMsg)
     ELSE IF "marginals" \in in.nulls
     THEN Crash([r0 EXCEPT !.ptr.samples = "null"], "args")
     ELSE LET r1 == [r0 EXCEPT !.ptr = [p \in DOMAIN r0.ptr |-> "null"],
                               !.seededRngEngine = Reseed(@, in.seed)]
              r2 == CheckInputs(in, r1)
          IN IF r2.stage # "checked" THEN r2
             ELSE LET task == Task(in.tables, in.minVars)
                      x0 == X0Of(in, task)
                  IN IF ReadsOutside(task, in.variableOrder, x0)
                     THEN OutsideRead(in, r2)
                     ELSE SampleOutputs(in, r2, task,
                                        LspBucketTree(task, in.variableOrder, x0,
                                                      in.maxSolutions > 0,
                                                      in.returnMarginals # 0))

\* the main loop of orang::greedyVarOrder run to its end with the draws rns
RECURSIVE GreedyRun(_, _, _, _, _)
GreedyRun(vs, in, last, order, rns) ==
  IF DOMAIN vs = {} THEN order
  ELSE IF minCostLower(vs, in).processed THEN order
  ELSE IF CplxLE(minCostLower(vs, in).complexity, in.maxC)
  THEN LET r == ElimBranch(vs, in, Head(rns))
       IN GreedyRun(r.vs, in, last, Append(order, r.v), Tail(rns))
  ELSE LET r == ClampBranch(vs, in, last, Head(rns))
       IN GreedyRun(r.vs, in, r.rank, order, Tail(rns))

\* cr after "cr.assign(task.numVars(), 0)" when clampRanks_len is 0
ClampRanksOf(in, task) ==
  IF Len(in.clampRanks) = 0 THEN [i \in 1 .. task.numVars |-> 0] ELSE in.clampRanks

\* the members of DummyOperations that take part in evaluating values
DummyOps == {"combine", "combineIdentity", "marginalizer", "solvableMarginalizer",
             "initSolution"}

DummyOperations_IdentityOnly(op) ==
  IF op = "combineIdentity" THEN [ok |-> TRUE, err |-> "none"]
  ELSE [ok |-> FALSE, err |-> "OperationUnavailable"]

\* DummyOperations: each member throws OperationUnavailable
DummyOperations(op) == [ok |-> FALSE, err |-> "OperationUnavailable"]

\* the members of the algebra that orang::greedyVarOrder calls on its task:
\* it reads task.numVars(), task.domSize() and task.graph() only
GreedyOpsUsed == {}

\* int greedyVarOrder(...)
greedyVarOrder(in) ==
  LET r0 == CallStart(in)
  IN IF in.nulls # {}
     THEN Raise(r0, "args", "Errors", "invalid_argument", LongestFixedMsg)
     ELSE LET r1 == [r0 EXCEPT !.ptr.variableOrder = "null"]
          IN IF in.negLen = "tables_len"
             THEN Raise(r1, "tables", "std::length_error", "length_error", 0)
             ELSE IF \E t \in 1 .. Len(in.tables) : ~TableValid(in.tables[t])
             THEN Raise(r1, "tables", "orang::Exception", "invalid_argument", in.libMsgLen)
             ELSE IF in.negLen = "clampRanks_len"
             THEN Raise(r1, "task", "std::length_error", "length_error", 0)
             ELSE IF ~TablesConsistent(in.tables)
             THEN Raise(r1, "task", "orang::Exception", "invalid_argument", in.libMsgLen)
             ELSE LET task == Task(in.tables, Len(in.clampRanks))
                      cr == ClampRanksOf(in, task)
                      V == DOMAIN task.adj
                      gi == [adj |-> task.adj, dom |-> task.dom,
                             ranks |-> [v \in V |-> cr[v + 1]],
                             maxC |-> in.maxComplexity, h |-> in.heuristic,
                             scale |-> in.scale]
                  IN IF Len(cr) # task.numVars
                     THEN Raise(r1, "ranks", "Errors", "invalid_argument", LongestFixedMsg)
                     ELSE IF in.heuristic \notin Heuristics
                     THEN Raise(r1, "heuristic", "Errors", "invalid_argument", LongestFixedMsg)
                     ELSE IF \E op \in GreedyOpsUsed : ~DummyOperations(op).ok
                     THEN Raise(r1, "order", "orang::Exception", "OperationUnavailable",
                                in.libMsgLen)
                     ELSE LET vs0 == [v \in V |-> InitVariable(v, gi.adj, gi.ranks)]
                              order == GreedyRun(UpdateAll(vs0, V, gi.h, gi.dom), gi,
                                                 0 - 1, <<>>, in.rns)
                              r2 == [r1 EXCEPT !.written = {"variableOrder_len"},
                                               !.len = Len(order)]
                          IN IF "variableOrder" \in in.mallocFails
                             THEN Raise(r2, "alloc", "std::bad_alloc", "out_of_memory", 13)
                             ELSE Return0([r2 EXCEPT !.ptr.variableOrder = "variableOrder",
                                                     !.order = order])

\* ------------------------------------------------------------------------
\* The TreeDecomp constructor and the entry points of the Python binding
\* ------------------------------------------------------------------------

\* the nodes of the constructed decomposition without the fill-in edges
TdCtorNodes_NoFill(adj, order) ==
  LET clampedSet == DOMAIN adj \ Range(order)
  IN TdNodes_NoFill(order, [v \in DOMAIN adj |-> adj[v] \ clampedSet], adj, clampedSet)

\* the nodes the constructor leaves in the TreeDecomp object
TdCtorNodes(adj, order) == TreeDecomp(adj, order)

\* TreeDecomp::clampedVars: the variables outside the order, ascending
TdClampedVars(adj, order) == SeqOfSet(DOMAIN adj \ Range(order))

\* TreeDecomp::TreeDecomp(graph, varOrder, domSizes)
TreeDecompCtor(in) ==
  LET task == Task(in.tables, in.minVars)
  IN IF TdInvalid(task.numVars, in.variableOrder, in.domSizes)
     THEN [outcome |-> "exception", err |-> "invalid_argument", stage |-> "decomp",
           decomp |-> FALSE, tree |-> FALSE, complexity |-> 0, nodes |-> <<>>,
           clampedVars |-> <<>>]
     ELSE [outcome |-> "returned", err |-> "none", stage |-> "done",
           decomp |-> TRUE, tree |-> FALSE,
           complexity |-> TdComplexity(task.adj, in.variableOrder,
                                       [v \in DOMAIN task.adj |-> in.domSizes[v + 1]]),
           nodes |-> TdCtorNodes(task.adj, in.variableOrder),
           clampedVars |-> TdClampedVars(task.adj, in.variableOrder)]

\* varOrderVec returns (TRUE) or throws std::invalid_argument (FALSE)
varOrderVec(voLen, voData, numVars) ==
  /\ ~(voLen < 0)
  /\ \A i \in 1 .. voLen :
       /\ ~(voData[i] < 0 \/ voData[i] >= numVars)
       /\ \A j \in 1 .. (i - 1) : voData[j] # voData[i]

PyComplexityExceeded(cplx, maxComplexity) == ~CplxLE(cplx, maxComplexity)

\* randomSeed: the seed of the caller when it is not negative, else the clock
randomSeed(userSeed, clock) == IF userSeed >= 0 THEN userSeed ELSE clock

\* the rows of solutions and samples: the domain index x is written as s[x]
\* with s = {z, 1}
PyRow(row, z) == [j \in 1 .. Len(row) |-> IF row[j] = 0 THEN z ELSE 1]

\* Normalizer applied to (*mTable)[k]; a read past the end of the table
\* yields whatever lies behind it
TableRead(values, k, beyond) == IF k < Len(values) THEN values[k + 1] ELSE beyond

\* the node tables of the node that eliminates v
NodeTablesOf(tree, v) ==
  tree.nodeTables[CHOOSE k \in 1 .. Len(tree.nodeTables) : tree.nodeTables[k].nodeVar = v]

\* singleMarginals: one entry per variable, 0.0 unless a node eliminates
\* the variable, and then the normalised entry 1 of the unary table
singleMarginals(tree, beyond) ==
  [j \in 1 .. tree.task.numVars |->
     IF \E k \in 1 .. Len(tree.nodeTables) : tree.nodeTables[k].nodeVar = j - 1
     THEN LET one == Normalized(LspTableMerger({j - 1}, NodeTablesOf(tree, j - 1).tables,
                                               tree.task.dom), tree.task.dom)
          IN [value |-> TableRead(one.values, 1, beyond), norm |-> one.norm]
     ELSE [value |-> 0, norm |-> 1]]

\* the row "mrg[p];" inserts: a value-initialised PairMrgVals
PairMrgVals == [values |-> <<0, 0, 0, 0>>, norm |-> 1]

\* the keys of pairMarginals: the scopes of the two-variable tables
PairMrgKeys(task) ==
  {<<task.tables[t].vars[1], task.tables[t].vars[2]>> :
     t \in {u \in 1 .. Len(task.tables) : Len(task.tables[u].vars) = 2}}

\* pairMarginals: a row is filled by the node that eliminates one variable
\* of the pair and has the other in its separator
pairMarginals(tree, beyond) ==
  [p \in PairMrgKeys(tree.task) |->
     LET filler == {k \in 1 .. Len(tree.nodeTables) :
                      \E v \in tree.nodeTables[k].sepVars :
                         {tree.nodeTables[k].nodeVar, v} = {p[1], p[2]}}
     IN IF filler = {} THEN PairMrgVals
        ELSE LET nt  == tree.nodeTables[CHOOSE k \in filler : TRUE]
                 two == Normalized(LspTableMerger({p[1], p[2]}, nt.tables, tree.task.dom),
                                   tree.task.dom)
             IN [values |-> [k \in 1 .. 4 |-> TableRead(two.values, k - 1, beyond)],
                 norm   |-> two.norm]]

\* solve (src/orang/src/solve.cpp) and sample (src/orang/src/sample.cpp):
\* the bucket tree is built with x0 all zeros, sample draws from an engine
\* of its own, and their exceptions are left to the caller
PyEntry(in) ==
  LET task == Task(in.tables, in.minVars)
      none == [outcome |-> "exception", err |-> "none", stage |-> "order",
               decomp |-> FALSE, tree |-> FALSE, energies |-> <<>>,
               logZ |-> 0, samples |-> <<>>, singleMrg |-> <<>>, pairMrg |-> <<>>]
  IN IF ~varOrderVec(CLen(in, "variableOrder_len", in.variableOrder),
                     in.variableOrder, task.numVars)
     THEN [none EXCEPT !.err = "invalid_argument"]
     ELSE IF PyComplexityExceeded(TdComplexity(task.adj, in.variableOrder, task.dom),
                                  in.maxComplexity)
     THEN [none EXCEPT !.err = "complexity", !.stage = "complexity", !.decomp = TRUE]
     ELSE IF in.fn = "py_sample"
     THEN LET tree == LspBucketTree(task, in.variableOrder, ZeroVector(task),
                                    in.maxSolutions > 0, in.returnMarginals # 0)
              drawn == DrawSamples(tree, in.maxSolutions, <<>>,
                                   MtSeed(randomSeed(in.seed, in.clock)))
          IN [none EXCEPT !.outcome = "returned", !.stage = "done", !.decomp = TRUE,
                          !.tree = TRUE, !.logZ = tree.problemValue,
                          !.samples = [i \in 1 .. Len(drawn.samples) |->
                                         PyRow(drawn.samples[i], in.z)],
                          !.singleMrg = IF in.returnMarginals # 0
                                        THEN singleMarginals(tree, in.beyond) ELSE <<>>,
                          !.pairMrg = IF in.returnMarginals # 0
                                      THEN pairMarginals(tree, in.beyond) ELSE <<>>]
     ELSE LET tree == BucketTree(task, in.variableOrder, ZeroVector(task),
                                 in.maxSolutions > 0, FALSE)
          IN [none EXCEPT !.outcome = "returned", !.stage = "done", !.decomp = TRUE,
                          !.tree = TRUE,
                          !.energies =
                             IF in.maxSolutions > 0
                             THEN OptimizeEnergies(tree.problemValue,
                                                   BtSolveMin(tree, in.maxSolutions))
                             ELSE <<tree.problemValue>>]

\* ------------------------------------------------------------------------
\* Graph (src/orang/src/include/graph.h)
\* ------------------------------------------------------------------------
MaxPairs == 3

\* std::set<adj_pair> iterates in the order of std::pair's operator<
PairLess(p, q) == p[1] < q[1] \/ (p[1] = q[1] /\ p[2] < q[2])

RECURSIVE SortPairs(_)
SortPairs(S) ==
  IF S = {} THEN <<>>
  ELSE LET m == CHOOSE p \in S : \A q \in S \ {p} : PairLess(p, q)
       IN <<m>> \o SortPairs(S \ {m})

\* the first loop without the reverse pair
SymAdjSet_OneDirection(adjSet) ==
  {adjSet[i] : i \in {k \in 1 .. Len(adjSet) : adjSet[k][1] # adjSet[k][2]}}

\* the first loop of setAdjacencies: both directions of every pair whose
\* endpoints differ
SymAdjSet(adjSet) ==
  UNION {{adjSet[i], <<adjSet[i][2], adjSet[i][1]>>} :
           i \in {k \in 1 .. Len(adjSet) : adjSet[k][1] # adjSet[k][2]}}

\* numVars after the first loop
GraphNumVars(adjSet, minVars) ==
  MaxSet({minVars} \cup {1 + MaxOf(adjSet[i][1], adjSet[i][2]) : i \in 1 .. Len(adjSet)})

\* the inner while loop: offsets are pushed until lastI passes "first"
RECURSIVE PushOffsets(_, _, _)
PushOffsets(offs, lastI, first) ==
  IF lastI <= first
  THEN PushOffsets(Append(offs, offs[Len(offs)]), lastI + 1, first)
  ELSE [offs |-> offs, lastI |-> lastI]

\* the second loop over the sorted pairs
RECURSIVE FillAdjacency(_, _, _, _)
FillAdjacency(pairs, offs, lastI, adj) ==
  IF pairs = <<>> THEN [offs |-> offs, adj |-> adj]
  ELSE LET p == Head(pairs)
           w == PushOffsets(offs, lastI, p[1])
           n == Len(w.offs)
       IN FillAdjacency(Tail(pairs), [w.offs EXCEPT ![n] = @ + 1], w.lastI,
                        Append(adj, p[2]))

\* vector::resize(n, value)
Resize(sq, n, value) ==
  IF n <= Len(sq) THEN SubSeq(sq, 1, n)
  ELSE sq \o [i \in 1 .. (n - Len(sq)) |-> value]

\* Graph::setAdjacencies; adjOffsets_ and adj_ are 1-based here
setAdjacencies(adjSet, minVars) ==
  LET numVars == GraphNumVars(adjSet, minVars)
      f == FillAdjacency(SortPairs(SymAdjSet(adjSet)), <<0>>, 0, <<>>)
  IN [adjOffsets |-> Resize(f.offs, numVars + 1, f.offs[Len(f.offs)]),
      adj |-> f.adj]

\* Graph::numVertices
numVertices(g) == Len(g.adjOffsets) - 1

\* Graph::adjacencyBegin .. adjacencyEnd of vertex v
Adjacency(g, v) == SubSeq(g.adj, g.adjOffsets[v + 1] + 1, g.adjOffsets[v + 2])

\* the constructor Graph(adjSet, minVars)
GraphCtor(in) ==
  [outcome |-> "returned", err |-> "none", stage |-> "done",
   graph |-> setAdjacencies(in.pairs, in.minVars)]

\* a Table as the merger reads it: the scope and the value of each assignment
TableFn(T, dom) ==
  [scope |-> Range(T.vars), val |-> [a \in Assign(Range(T.vars), dom) |-> TabAt(T, a)]]

\* merge(outVars, first, last, marginalizer) of a TableMerger built on a Task
\* of the tables: the first in.merged tables are merged to the scope outVars
MergerCall(in) ==
  LET task == Task(in.tables, in.minVars)
      fts  == [i \in 1 .. in.merged |-> TableFn(task.tables[i], task.dom)]
  IN [outcome |-> "returned", err |-> "none", stage |-> "done",
      table |-> TableMerger(Range(in.outVars), fts, task.dom)]

\* ------------------------------------------------------------------------
\* Calls of the entry points: inputs
\* ------------------------------------------------------------------------
CDefault ==
  [ fn |-> "optimize", tables |-> <<>>, minVars |-> 0, variableOrder |-> <<>>,
    maxComplexity |-> MaxCplx, maxSolutions |-> 0, initState |-> <<>>,
    nulls |-> {}, mallocFails |-> {}, negLen |-> "none", libMsgLen |-> 30,
    ubCrash |-> FALSE, returnMarginals |-> 0, clampRanks |-> <<>>,
    heuristic |-> 0, scale |-> ScaleDen, rns |-> <<>>, domSizes |-> <<>>,
    pairs |-> <<>>, seed |-> 0, defaultRngEngine |-> MtSeed(0),
    seededRngEngine |-> MtSeed(0), clock |-> 0, z |-> 0 - 1, beyond |-> 1,
    outVars |-> <<>>, merged |-> 0 ]

AtMostOne(S) == {N \in SUBSET S : Cardinality(N) <= 1}

ShortOrders == {sq \in OrderSeqs : Len(sq) <= 1}

FaultOrders == {<<>>, <<0, 1>>, <<0, 0>>}

\* initial states: none, one entry, or one entry per variable, with values
\* up to the largest domain size
InitStates ==
  {sq \in SeqsUpTo(0 .. MaxDom, NumVars) : Len(sq) \in {0, 1, NumVars}}

\* functional calls: every order, budget and number of solutions
OptimizeCalls ==
  {[CDefault EXCEPT !.tables = t, !.variableOrder = o, !.maxComplexity = c,
                    !.maxSolutions = k, !.minVars = m] :
      t \in GoodTables, o \in OrderSeqs, c \in 0 .. MaxCplx,
      k \in 0 .. MaxSolutions, m \in MinVarsSet}

\* calls with an initial state
OptimizeX0Calls ==
  {[CDefault EXCEPT !.tables = t, !.variableOrder = o, !.initState = x,
                    !.maxSolutions = k, !.minVars = NumVars, !.ubCrash = u] :
      t \in GoodTables, o \in ShortOrders, x \in InitStates, k \in {0, 1},
      u \in BOOLEAN}

\* calls with NULL arguments, negative lengths, malformed tables and
\* failing allocations
OptimizeFaultCalls ==
  {[CDefault EXCEPT !.tables = t, !.variableOrder = o, !.nulls = n,
                    !.mallocFails = f, !.negLen = g, !.maxSolutions = k,
                    !.libMsgLen = l] :
      t \in GoodTables \cup BadTables, o \in FaultOrders,
      n \in AtMostOne({"energies", "energies_len", "states", "varNum"}),
      f \in SUBSET {"energies", "states"},
      g \in {"none", "tables_len", "variableOrder_len", "initState_len"},
      k \in {0, MaxSolutions}, l \in LibMsgLens}

SampleCalls ==
  {[CDefault EXCEPT !.fn = "sample", !.tables = t, !.variableOrder = o,
                    !.maxComplexity = c, !.maxSolutions = k,
                    !.returnMarginals = rm] :
      t \in GoodTables, o \in OrderSeqs, c \in 0 .. MaxCplx, k \in {0, MaxSolutions},
      rm \in {0, 1}}

SampleX0Calls ==
  {[CDefault EXCEPT !.fn = "sample", !.tables = t, !.variableOrder = o,
                    !.initState = x, !.maxSolutions = k, !.minVars = NumVars,
                    !.ubCrash = u] :
      t \in GoodTables, o \in {<<>>, <<0>>}, x \in InitStates, k \in {1, 2},
      u \in BOOLEAN}

SampleFaultCalls ==
  {[CDefault EXCEPT !.fn = "sample", !.tables = t, !.variableOrder = o, !.nulls = n,
                    !.mallocFails = f, !.negLen = g, !.maxSolutions = k,
                    !.returnMarginals = rm] :
      t \in {<<>>, <<TabP01, TabP12>>, <<TabDescending>>}, o \in FaultOrders,
      n \in AtMostOne({"logZ", "samples", "varNum", "marginals", "marginals_len"}),
      f \in SUBSET {"samples", "marginals", "marginal_vars"},
      g \in {"none", "tables_len", "variableOrder_len"},
      k \in {0, 1}, rm \in {0, 1}}

\* clampRanks: empty, one per variable, or too few
ClampRankSeqs ==
  {<<>>, [i \in 1 .. NumVars |-> 0], [i \in 1 .. NumVars |-> IF i = 1 THEN 0 - 1 ELSE i],
   <<0>>}

GreedyCalls ==
  {[CDefault EXCEPT !.fn = "greedyVarOrder", !.tables = t, !.clampRanks = cr,
                    !.maxComplexity = c, !.heuristic = h, !.rns = rn, !.nulls = n,
                    !.mallocFails = f, !.negLen = g] :
      t \in {<<>>, <<TabP01, TabP12>>, <<TabU0, TabP01, TabP12, TabP02>>, <<TabDescending>>},
      cr \in ClampRankSeqs, c \in {1, MaxCplx},
      h \in Heuristics \cup {WEIGHTED_MIN_FILL + 1},
      rn \in {[i \in 1 .. NumVars |-> 0], [i \in 1 .. NumVars |-> RngDen]},
      n \in AtMostOne({"variableOrder", "variableOrder_len"}),
      f \in SUBSET {"variableOrder"},
      g \in {"none", "tables_len", "clampRanks_len"}}

PyCalls ==
  {[CDefault EXCEPT !.fn = f, !.tables = t, !.variableOrder = o, !.maxComplexity = c,
                    !.maxSolutions = k, !.negLen = g] :
      f \in {"py_solve", "py_sample"}, t \in GoodTables, o \in OrderSeqs,
      c \in 0 .. MaxCplx, k \in {0, 1}, g \in {"none", "variableOrder_len"}}

\* domain-size vectors for the constructor: those of the task, one entry
\* short, and with a zero
DomSizeSeqs(task) ==
  LET d == SeqOfFn(task.dom)
  IN {d, SubSeq(d, 1, Len(d) - 1), [i \in 1 .. Len(d) |-> IF i = 1 THEN 0 ELSE d[i]]}

TreeDecompCalls ==
  UNION {{[CDefault EXCEPT !.fn = "TreeDecomp", !.tables = t, !.variableOrder = o,
                           !.minVars = m, !.domSizes = d] :
            o \in OrderSeqs, d \in DomSizeSeqs(Task(t, m))} :
         t \in GoodTables, m \in MinVarsSet}

\* what a read past the end of a table finds, as a weight
Beyonds == {1, 64}

\* sample_ising / sample_qubo with marginals
PyMarginalCalls ==
  {[CDefault EXCEPT !.fn = "py_sample", !.tables = t, !.minVars = m,
                    !.variableOrder = o, !.maxSolutions = k, !.returnMarginals = 1,
                    !.beyond = b] :
      t \in {<<TabU0>>, <<TabP01, TabP12>>, <<TabU0, TabP01, TabP12, TabP02>>},
      m \in MinVarsSet, o \in OrderSeqs, k \in {0, 1}, b \in Beyonds}

\* calls without tables: every entry point, number of variables and order
EmptyTableCalls ==
  {[CDefault EXCEPT !.fn = f, !.minVars = m, !.variableOrder = o, !.maxSolutions = k,
                    !.returnMarginals = rm] :
      f \in {"optimize", "sample", "py_solve", "py_sample"}, m \in 0 .. NumVars,
      o \in OrderSeqs, k \in 0 .. MaxSolutions, rm \in {0, 1}}

\* lists of up to MaxPairs endpoint pairs, self-loops and repetitions included
GraphCalls ==
  {[CDefault EXCEPT !.fn = "Graph", !.pairs = ps, !.minVars = m] :
      ps \in SeqsUpTo((0 .. (NumVars - 1)) \X (0 .. (NumVars - 1)), MaxPairs),
      m \in 0 .. (NumVars + 1)}

\* merges of a leading part of the tables, none and all included, to every
\* scope over the variables of the task
MergerCalls ==
  UNION {{[CDefault EXCEPT !.fn = "TableMerger", !.tables = t, !.minVars = NumVars,
                           !.outVars = SeqOfSet(S), !.merged = k] :
            S \in SUBSET (0 .. (NumVars - 1)), k \in 0 .. Len(t)} :
         t \in GoodTables}

Pending == [outcome |-> "pending"]

CInit ==
  /\ \/ cin \in OptimizeCalls
     \/ cin \in OptimizeX0Calls
     \/ cin \in OptimizeFaultCalls
     \/ cin \in SampleCalls
     \/ cin \in SampleX0Calls
     \/ cin \in SampleFaultCalls
     \/ cin \in PyMarginalCalls
     \/ cin \in GreedyCalls
     \/ cin \in PyCalls
     \/ cin \in TreeDecompCalls
     \/ cin \in GraphCalls
     \/ cin \in EmptyTableCalls
     \/ cin \in MergerCalls
  /\ cout = Pending
  /\ GvoUnused
  /\ BtUnused
  /\ SUnused
  /\ AUnused
  /\ DUnused
  /\ QUnused

\* ------------------------------------------------------------------------
\* Calls of the entry points: one action per entry point
\* ------------------------------------------------------------------------
COptimize ==
  /\ cin.fn = "optimize" /\ cout = Pending
  /\ cout' = optimize(cin)
  /\ UNCHANGED <<cin, gvars, bvars, svars, avars, dvars, qvars>>

CSample ==
  /\ cin.fn = "sample" /\ cout = Pending
  /\ cout' = sample(cin)
  /\ UNCHANGED <<cin, gvars, bvars, svars, avars, dvars, qvars>>

CGreedyVarOrder ==
  /\ cin.fn = "greedyVarOrder" /\ cout = Pending
  /\ cout' = greedyVarOrder(cin)
  /\ UNCHANGED <<cin, gvars, bvars, svars, avars, dvars, qvars>>

CPython ==
  /\ cin.fn \in {"py_solve", "py_sample"} /\ cout = Pending
  /\ cout' = PyEntry(cin)
  /\ UNCHANGED <<cin, gvars, bvars, svars, avars, dvars, qvars>>

CTreeDecomp ==
  /\ cin.fn = "TreeDecomp" /\ cout = Pending
  /\ cout' = TreeDecompCtor(cin)
  /\ UNCHANGED <<cin, gvars, bvars, svars, avars, dvars, qvars>>

CGraph ==
  /\ cin.fn = "Graph" /\ cout = Pending
  /\ cout' = GraphCtor(cin)
  /\ UNCHANGED <<cin, gvars, bvars, svars, avars, dvars, qvars>>

CMerger ==
  /\ cin.fn = "TableMerger" /\ cout = Pending
  /\ cout' = MergerCall(cin)
  /\ UNCHANGED <<cin, gvars, bvars, svars, avars, dvars, qvars>>

CNext ==
  COptimize \/ CSample \/ CGreedyVarOrder \/ CPython \/ CTreeDecomp \/ CGraph \/ CMerger

SpecC == CInit /\ [][CNext]_allvars

\* ------------------------------------------------------------------------
\* A process calling sample repeatedly: the static engines outlive the calls
\* ------------------------------------------------------------------------
MaxSessionCalls == 3

\* std::time(0) at the first call
Clocks == {4, 7}

\* boost::mt19937::default_seed
MT_DEFAULT_SEED == 5489

Seeds == {0 - 1, 0, 1}

SessionCalls ==
  {[CDefault EXCEPT !.fn = "sample", !.tables = t, !.variableOrder = o,
                    !.maxSolutions = k, !.seed = sd] :
      t \in {<<TabU0, TabU2>>, <<TabP01, TabP12>>}, o \in {<<0, 1, 2>>, <<2>>},
      k \in {1, 2}, sd \in Seeds}

SInit ==
  /\ defaultRngEngine \in {MtSeed(c) : c \in Clocks}
  /\ seededRngEngine = MtSeed(MT_DEFAULT_SEED)
  /\ slog = <<>>
  /\ GvoUnused
  /\ BtUnused
  /\ CUnused
  /\ AUnused
  /\ DUnused
  /\ QUnused

\* one call of sample by the process
SSample ==
  /\ Len(slog) < MaxSessionCalls
  /\ \E in \in SessionCalls :
       \E r \in {sample([in EXCEPT !.defaultRngEngine = defaultRngEngine,
                                   !.seededRngEngine = seededRngEngine])} :
          /\ defaultRngEngine' = r.defaultRngEngine
          /\ seededRngEngine' = r.seededRngEngine
          /\ slog' = Append(slog, [in |-> in, logZ |-> r.logZ, samples |-> r.samples,
                                   status |-> r.status])
  /\ UNCHANGED <<gvars, bvars, cvars, avars, dvars, qvars>>

SNext == SSample

SpecS == SInit /\ [][SNext]_allvars

\* ------------------------------------------------------------------------
\* general_simulated_annealing (cpu_rotormc.cpp, localPIMC.cpp): the loop
\* over the runs and the interrupt callback
\* ------------------------------------------------------------------------
MaxSamples == 3

\* the proposals of the enumeration, and a value outside it
Proposals == {"MetropolisNonErgodic", "GibbsNonErgodic", "MetropolisUniform", "MetropolisTF"}

AnnealInputs ==
  [ entry : {"cpu_rotormc", "localPIMC"},
    num_samples : 0 .. MaxSamples,
    couplersMatch : BOOLEAN,
    proposal : {"MetropolisTF", "invalid"},
    project_outputs : BOOLEAN,
    interrupt_function : {"null", "contents"} ]

AInit ==
  /\ ain \in AnnealInputs
  /\ anneal = [ pc |-> "entry", sample |-> 0, started |-> 0,
                states |-> [i \in 0 .. (ain.num_samples - 1) |-> "untouched"],
                energies |-> [i \in 0 .. (ain.num_samples - 1) |-> "untouched"],
                breaks |-> [i \in 0 .. (ain.num_samples - 1) |-> "untouched"],
                calls |-> <<>>, ret |-> 0 - 1 ]
  /\ GvoUnused
  /\ BtUnused
  /\ CUnused
  /\ SUnused
  /\ DUnused
  /\ QUnused

\* a run is under way when a run was started and its energy is not yet stored
RunUnderWay(a) == a.started > a.sample

\* the checks before the loop: the coupler vectors have equal lengths
AEntry ==
  /\ anneal.pc = "entry"
  /\ anneal' = [anneal EXCEPT !.pc = IF ain.couplersMatch THEN "loop" ELSE "thrown"]
  /\ UNCHANGED <<ain, gvars, bvars, cvars, svars, dvars, qvars>>

\* while (sample < num_samples)
ALoopTest ==
  /\ anneal.pc = "loop"
  /\ anneal' = [anneal EXCEPT !.pc = IF anneal.sample < ain.num_samples
                                     THEN "run" ELSE "return"]
  /\ UNCHANGED <<ain, gvars, bvars, cvars, svars, dvars, qvars>>

\* the run starts: cpu_rotormc selects the run by the proposal and anneals
\* the state in place; localPIMC anneals its own copy
ARunBegin ==
  /\ anneal.pc = "run"
  /\ anneal' =
       IF ain.entry = "cpu_rotormc" /\ ain.proposal \notin Proposals
       THEN [anneal EXCEPT !.pc = "thrown"]
       ELSE [anneal EXCEPT !.pc = "running", !.started = @ + 1,
                           !.states[anneal.sample] =
                              IF ain.entry = "cpu_rotormc" THEN "partial" ELSE @]
  /\ UNCHANGED <<ain, gvars, bvars, cvars, svars, dvars, qvars>>

\* the run ends: the state of the run is complete (localPIMC: readSlice)
ARunEnd ==
  /\ anneal.pc = "running"
  /\ anneal' = [anneal EXCEPT !.pc = "energy", !.states[anneal.sample] = "written"]
  /\ UNCHANGED <<ain, gvars, bvars, cvars, svars, dvars, qvars>>

\* energies[sample] = ..., localPIMC reads the breaks out, and sample++
AEnergy ==
  /\ anneal.pc = "energy"
  /\ anneal' = [anneal EXCEPT
                  !.pc = "interrupt",
                  !.energies[anneal.sample] = "written",
                  !.breaks[anneal.sample] =
                     IF ain.entry = "localPIMC" /\ ~ain.project_outputs
                     THEN "written" ELSE @,
                  !.sample = @ + 1]
  /\ UNCHANGED <<ain, gvars, bvars, cvars, svars, dvars, qvars>>

InterruptRequested_Ignored(interrupt_function, answer) == FALSE

\* "interrupt_function && interrupt_callback(interrupt_function)", answer
\* being what the callback returns
InterruptRequested(interrupt_function, answer) ==
  interrupt_function # "null" /\ answer

\* if (interrupt_function && interrupt_callback(interrupt_function)) break;
AInterrupt ==
  /\ anneal.pc = "interrupt"
  /\ \/ /\ ain.interrupt_function = "null"
        /\ anneal' = [anneal EXCEPT !.pc = "loop"]
     \/ /\ ain.interrupt_function # "null"
        /\ \E answer \in BOOLEAN :
             anneal' = [anneal EXCEPT
                          !.calls = Append(@, [completed |-> anneal.sample,
                                               during |-> RunUnderWay(anneal),
                                               answer |-> answer]),
                          !.pc = IF InterruptRequested(ain.interrupt_function, answer)
                                 THEN "return" ELSE "loop"]
  /\ UNCHANGED <<ain, gvars, bvars, cvars, svars, dvars, qvars>>

\* return sample;
AReturn ==
  /\ anneal.pc = "return"
  /\ anneal' = [anneal EXCEPT !.pc = "done", !.ret = anneal.sample]
  /\ UNCHANGED <<ain, gvars, bvars, cvars, svars, dvars, qvars>>

ANext ==
  AEntry \/ ALoopTest \/ ARunBegin \/ ARunEnd \/ AEnergy \/ AInterrupt \/ AReturn

SpecSA == AInit /\ [][ANext]_allvars

\* ------------------------------------------------------------------------
\* steepest_gradient_descent (greedy/src/descent.cpp), one sample
\* ------------------------------------------------------------------------
NumSpins == 2

MaxCouplers == 2

SpinBiases == {0 - 1, 0, 1}

CouplerWeights == {0 - 1, 1}

Spins == {0 - 1, 1}

\* a coupler is <<coupler_starts[c], coupler_ends[c], coupler_weights[c]>>;
\* the index n is outside a problem of n variables
DescentInputs ==
  UNION {[ linear_biases : [0 .. (n - 1) -> SpinBiases],
           couplers : SeqsUpTo((0 .. n) \X (0 .. n) \X CouplerWeights, MaxCouplers),
           state : [0 .. (n - 1) -> Spins] ] : n \in 0 .. NumSpins}

\* the loop that builds degrees, neighbors and neighbour_couplings
RECURSIVE BuildNeighbors(_, _, _)
BuildNeighbors(couplers, c, acc) ==
  IF c > Len(couplers) THEN acc
  ELSE LET u  == couplers[c][1]
           v  == couplers[c][2]
           w  == couplers[c][3]
           a1 == [acc EXCEPT !.neighbors[u] = Append(@, v),
                             !.neighbour_couplings[u] = Append(@, w)]
           a2 == [a1 EXCEPT !.neighbors[v] = Append(@, u),
                            !.neighbour_couplings[v] = Append(@, w)]
           a3 == [a2 EXCEPT !.degrees[u] = @ + 1]
       IN BuildNeighbors(couplers, c + 1, [a3 EXCEPT !.degrees[v] = @ + 1])

\* u < 0 || v < 0 || u >= num_vars || v >= num_vars, for some coupler
InvalidCoupler(couplers, num_vars) ==
  \E c \in 1 .. Len(couplers) :
    \/ couplers[c][1] < 0 \/ couplers[c][2] < 0
    \/ couplers[c][1] >= num_vars \/ couplers[c][2] >= num_vars

get_flip_energy(var, state, linear_biases, nb) ==
  LET delta   == (0 - 2) * state[var]
      contrib == linear_biases[var]
                 + SumSeq([idx \in 1 .. nb.degrees[var] |->
                             state[nb.neighbors[var][idx]]
                               * nb.neighbour_couplings[var][idx]])
  IN delta * contrib

get_state_energy(state, linear_biases, couplers) ==
  SumSeq([i \in 1 .. Cardinality(DOMAIN linear_biases) |->
            state[i - 1] * linear_biases[i - 1]])
  + SumSeq([c \in 1 .. Len(couplers) |->
              state[couplers[c][1]] * couplers[c][3] * state[couplers[c][2]]])

\* the scan for the steepest descent: the first variable of the least flip
\* energy when that is below zero, and -1 otherwise
best_var(flip_energies) ==
  LET below == {v \in DOMAIN flip_energies : flip_energies[v] < 0}
  IN IF below = {} THEN 0 - 1
     ELSE MinSet({v \in below : \A u \in below : flip_energies[v] <= flip_energies[u]})

DInit ==
  /\ din \in DescentInputs
  /\ desc = [ pc |-> "entry", state |-> din.state, flip_energies |-> <<>>,
              nb |-> [degrees |-> <<>>, neighbors |-> <<>>, neighbour_couplings |-> <<>>],
              energies |-> <<>> ]
  /\ GvoUnused
  /\ BtUnused
  /\ CUnused
  /\ SUnused
  /\ AUnused
  /\ QUnused

\* steepest_gradient_descent up to the call of the solver, and the solver up
\* to its loop
DSetup ==
  /\ desc.pc = "entry"
  /\ LET V  == DOMAIN din.linear_biases
         nb == BuildNeighbors(din.couplers, 1,
                 [ degrees |-> [v \in V |-> 0], neighbors |-> [v \in V |-> <<>>],
                   neighbour_couplings |-> [v \in V |-> <<>>] ])
     IN desc' =
          IF InvalidCoupler(din.couplers, Cardinality(V))
          THEN [desc EXCEPT !.pc = "thrown"]
          ELSE IF Cardinality(V) < 1
          THEN [desc EXCEPT !.pc = "energy", !.nb = nb]
          ELSE [desc EXCEPT !.pc = "loop", !.nb = nb,
                            !.flip_energies =
                               [v \in V |-> get_flip_energy(v, desc.state,
                                                            din.linear_biases, nb)]]
  /\ UNCHANGED <<din, gvars, bvars, cvars, svars, avars, qvars>>

\* one pass of while (!minimum_reached)
DIterate ==
  /\ desc.pc = "loop"
  /\ LET best == best_var(desc.flip_energies)
     IN desc' =
          IF best = 0 - 1 THEN [desc EXCEPT !.pc = "energy"]
          ELSE LET state == [desc.state EXCEPT ![best] = @ * (0 - 1)]
                   fe    == [desc.flip_energies EXCEPT ![best] = @ * (0 - 1)]
               IN [desc EXCEPT
                     !.state = state,
                     !.flip_energies =
                        [v \in DOMAIN fe |->
                           IF v \in Range(desc.nb.neighbors[best])
                           THEN get_flip_energy(v, state, din.linear_biases, desc.nb)
                           ELSE fe[v]]]
  /\ UNCHANGED <<din, gvars, bvars, cvars, svars, avars, qvars>>

\* energies[sample] = get_state_energy(...)
DEnergy ==
  /\ desc.pc = "energy"
  /\ desc' = [desc EXCEPT !.pc = "done",
                          !.energies = <<get_state_energy(desc.state, din.linear_biases,
                                                          din.couplers)>>]
  /\ UNCHANGED <<din, gvars, bvars, cvars, svars, avars, qvars>>

DNext == DSetup \/ DIterate \/ DEnergy

\* the process runs the call: a step that can be taken is taken
SpecGD == DInit /\ [][DNext]_allvars /\ WF_allvars(DNext)

\* ------------------------------------------------------------------------
\* localPIMC::reinitQuantum (dwave/samplers/sqa/src/localPIMC.cpp) and the
\* advance of the input pointer by its caller
\* ------------------------------------------------------------------------
NumQubits == 2

MaxBreaks == 3

\* what a read past the end of the caller's buffer may find
StrayValues == {0 - 1, 8}

\* the last sample of a call: breaks_buffer holds the sum of num_breaks
\* entries, entry k being the slice 2 * k
ReinitInputs ==
  UNION {{[ state |-> s, num_breaks |-> nb,
            breaks_buffer |-> [k \in 1 .. SumSeq(SeqOfFn(nb)) |-> 2 * k] ] :
            s \in [0 .. (n - 1) -> Spins], nb \in [0 .. (n - 1) -> 0 .. MaxBreaks]} :
         n \in 1 .. NumQubits}

\* std::vector<int>::resize
VectorResize(vec, size) == [m \in 1 .. size |-> IF m <= Len(vec) THEN vec[m] ELSE 0]

QInit ==
  /\ qin \in ReinitInputs
  /\ pimc = [ pc |-> "outer", i |-> 0, j |-> 0,
              firstSlice |-> [q \in DOMAIN qin.state |-> 0],
              breaks |-> [q \in DOMAIN qin.state |-> <<>>],
              num_breaks_total |-> 0,
              read |-> 0,
              nread |-> [q \in DOMAIN qin.state |-> 0],
              pastBuffer |-> 0,
              wild |-> {},
              p_breaks_in |-> 0,
              ret |-> 0 - 1 ]
  /\ GvoUnused
  /\ BtUnused
  /\ CUnused
  /\ SUnused
  /\ AUnused
  /\ DUnused

\* for (i = 0; i < firstSlice.size(); i++): the statements before the inner
\* loop, or the return
QOuter ==
  /\ pimc.pc = "outer"
  /\ pimc' =
       IF pimc.i < Cardinality(DOMAIN pimc.firstSlice)
       THEN [pimc EXCEPT !.firstSlice[pimc.i] = qin.state[pimc.i],
                         !.breaks[pimc.i] = VectorResize(@, qin.num_breaks[pimc.i]),
                         !.j = 0, !.pc = "inner"]
       ELSE [pimc EXCEPT !.pc = "return", !.ret = pimc.num_breaks_total]
  /\ UNCHANGED <<qin, gvars, bvars, cvars, svars, avars, dvars>>

\* for (j = 0; j < firstSlice.size(); j++) breaks[i][j] = *breaks_buffer++;
\* and, after the loop, num_breaks_total += num_breaks[i].  A read past the
\* buffer finds a stray value; a write past the size of breaks[i] lands
\* outside the list or stops the process
QInner ==
  /\ pimc.pc = "inner"
  /\ IF pimc.j < Cardinality(DOMAIN pimc.firstSlice)
     THEN \E found \in (IF pimc.read < Len(qin.breaks_buffer)
                         THEN {qin.breaks_buffer[pimc.read + 1]} ELSE StrayValues) :
            LET p1 == [pimc EXCEPT
                         !.read = @ + 1,
                         !.nread[pimc.i] = @ + 1,
                         !.pastBuffer = IF pimc.read < Len(qin.breaks_buffer)
                                        THEN @ ELSE @ + 1,
                         !.j = @ + 1]
            IN IF pimc.j < Len(pimc.breaks[pimc.i])
               THEN pimc' = [p1 EXCEPT !.breaks[pimc.i][pimc.j + 1] = found]
               ELSE \/ pimc' = [p1 EXCEPT !.wild = @ \cup {<<pimc.i, pimc.j>>}]
                    \/ pimc' = [p1 EXCEPT !.wild = @ \cup {<<pimc.i, pimc.j>>},
                                          !.pc = "crash"]
     ELSE pimc' = [pimc EXCEPT !.num_breaks_total = @ + qin.num_breaks[pimc.i],
                               !.i = @ + 1, !.pc = "outer"]
  /\ UNCHANGED <<qin, gvars, bvars, cvars, svars, avars, dvars>>

\* the caller: int num_breaks = pimc.reinitQuantum(...); p_breaks_in += num_breaks;
QReturn ==
  /\ pimc.pc = "return"
  /\ pimc' = [pimc EXCEPT !.pc = "done", !.p_breaks_in = @ + pimc.ret]
  /\ UNCHANGED <<qin, gvars, bvars, cvars, svars, avars, dvars>>

QNext == QOuter \/ QInner \/ QReturn

SpecRQ == QInit /\ [][QNext]_allvars

\* ------------------------------------------------------------------------
\* Claims about the bucket tree
\* ------------------------------------------------------------------------

\* C2: for every set of input tables, every x0 and every elimination order,
\* the problemValue of the min-plus BucketTree equals the minimum, over all
\* full assignments that agree with x0 on the clamped variables, of the sum
\* of all input table values at that assignment.
C2_ProblemValueIsBruteForceMin ==
  bt.built => bt.problemValue = BruteForceMin(BtTask, btin.order, BtX0)

\* a tree over at least two eliminated variables with a clamped variable
\* whose value in x0 costs something: freeing it would lower the optimum
C2_Witness ==
  /\ bt.built
  /\ Len(btin.order) >= 2
  /\ (DOMAIN BtTask.adj \ Range(btin.order)) \cap TableVars(btin.tables) # {}
  /\ BruteForceMin(BtTask, SeqOfSet(DOMAIN BtTask.adj), BtX0) < bt.problemValue

\* C9: problemValue is available right after construction whatever the
\* flags; solve succeeds, at every call, iff the tree was built solvable and
\* nodeTables iff it was built with keepNodeTables; the unavailable
\* operation fails with OperationUnavailable; no call changes the tree, so
\* neither problemValue nor the availability of the other operation changes.
C9_Availability ==
  /\ [](bt.built =>
          /\ bt.problemValue \in Int
          /\ (btlog.op = "problemValue" =>
                btlog.ok /\ btlog.value = bt.problemValue)
          /\ (btlog.op = "solve" => (btlog.ok <=> btin.solvable))
          /\ (btlog.op = "nodeTables" => (btlog.ok <=> btin.keepNodeTables))
          /\ (~btlog.ok => btlog.value = "OperationUnavailable"))
  /\ [][bt.built => bt' = bt /\ btin' = btin]_allvars

\* a second call, solve, failing on a tree that keeps its node tables
C9_Witness ==
  /\ bt.built
  /\ btlog.op = "solve" /\ ~btlog.ok /\ btlog.calls = MaxCalls
  /\ btin.keepNodeTables

\* C13: when the elimination order is empty, so that every variable is
\* clamped, problemValue is the sum of every input table read at x0, for
\* every x0 and every table list, tables with an empty scope included.
C13_AllClampedValue ==
  (bt.built /\ btin.order = <<>>) => bt.problemValue = Energy(BtTask, BtX0)

\* all variables clamped away from 0 under a table list that has a table
\* with an empty scope
C13_Witness ==
  /\ bt.built /\ btin.order = <<>>
  /\ \E t \in 1 .. Len(btin.tables) : btin.tables[t].vars = <<>>
  /\ Len(btin.tables) >= 3
  /\ \A v \in TableVars(btin.tables) : BtX0[v] # 0
  /\ bt.problemValue # 0

\* ------------------------------------------------------------------------
\* Reference values for sampling, by enumeration
\* ------------------------------------------------------------------------
\* the weight of a full assignment: the product of the weights of the tables
AssignWeight(task, a) ==
  ProdSeq([t \in 1 .. Len(task.tables) |-> Weight(TabAt(task.tables[t], a))])

RECURSIVE SumWeights(_, _)
SumWeights(task, S) ==
  IF S = {} THEN 0
  ELSE LET a == CHOOSE x \in S : TRUE
       IN AssignWeight(task, a) + SumWeights(task, S \ {a})

\* the partition function over the assignments that agree with x0
BruteForceZ(task, order, x0) == SumWeights(task, Agreeing(task, order, x0))

\* ------------------------------------------------------------------------
\* Claims about the entry points
\* ------------------------------------------------------------------------
CDone == cin # Unused /\ cout # Pending

CTask == Task(cin.tables, cin.minVars)

\* the assignments optimize chooses from, with their energies
CAgreeing == Agreeing(CTask, cin.variableOrder, X0Of(cin, CTask))

\* every entry of initState is a domain index of its variable
CX0InDomain ==
  \A i \in 1 .. Len(cin.initState) :
    i <= CTask.numVars => cin.initState[i] < CTask.dom[i - 1]

\* a successful call of optimize whose initState is within the domains
COptimized ==
  /\ CDone /\ cin.fn = "optimize"
  /\ cout.outcome = "returned" /\ cout.status = 0
  /\ CX0InDomain

AsSolution(task, a) == [value |-> Energy(task, a), solution |-> a]

\* C3: optimize with maxSolutions = k >= 1 and a valid initState returns k assignments (fewer only
\* if fewer exist) that agree with x0 on the clamped variables, each with
\* its energy, no other assignment having less energy than a returned one,
\* in order of weakly increasing energy with assignments of equal energy in
\* lexicographic order; energies[0] is the optimum that the same call
\* returns with maxSolutions = 0.
C3_KBest ==
  (COptimized /\ cin.maxSolutions >= 1) =>
    LET n == Len(cout.states)
    IN /\ n = MinOf(cin.maxSolutions, Cardinality(CAgreeing))
       /\ Len(cout.energies) = n /\ cout.len = n
       /\ \A i \in 1 .. n :
            /\ cout.states[i] \in CAgreeing
            /\ cout.energies[i] = Energy(CTask, cout.states[i])
       /\ \A i, j \in 1 .. n :
            i < j => SolLess(AsSolution(CTask, cout.states[i]),
                             AsSolution(CTask, cout.states[j]))
       /\ \A a \in CAgreeing \ Range(cout.states) :
            \A i \in 1 .. n : cout.energies[i] <= Energy(CTask, a)
       /\ cout.energies[1] = optimize([cin EXCEPT !.maxSolutions = 0]).energies[1]

\* two solutions of equal energy returned out of more than two candidates,
\* after eliminating at least two variables
C3_Witness ==
  /\ COptimized /\ cin.maxSolutions = 2
  /\ Len(cin.variableOrder) >= 2
  /\ Len(cout.states) = 2
  /\ cout.energies[1] = cout.energies[2]
  /\ cout.energies[1] # 0
  /\ Cardinality(CAgreeing) > 2

CEntryPoints == {"optimize", "sample", "greedyVarOrder"}

\* the order names distinct variables of the task
COrderValid ==
  /\ NoDuplicates(cin.variableOrder)
  /\ \A i \in 1 .. Len(cin.variableOrder) :
       cin.variableOrder[i] >= 0 /\ cin.variableOrder[i] < CTask.numVars

\* the tables are well formed and agree on the domain sizes
CTablesValid ==
  /\ \A t \in 1 .. Len(cin.tables) : TableValid(cin.tables[t])
  /\ TablesConsistent(cin.tables)

\* a call of optimize or sample, or of their Python counterparts, whose
\* arguments other than the elimination order and the budget are valid
CWellFormed ==
  /\ cin.nulls = {} /\ cin.negLen \in {"none", "initState_len"}
  /\ CTablesValid
  /\ Len(cin.initState) \in {0, CTask.numVars}
  /\ CX0InDomain

\* the call left nothing behind: no scalar written, no buffer returned
CNoOutput ==
  IF cin.fn \in CEntryPoints
  THEN /\ cout.written = {} /\ cout.energies = <<>> /\ cout.states = <<>>
       /\ \A p \in DOMAIN cout.ptr : cout.ptr[p] = "null"
  ELSE cout.energies = <<>>

CFailed ==
  IF cin.fn \in CEntryPoints
  THEN cout.outcome = "returned" /\ cout.status = 1
  ELSE cout.outcome = "exception"

\* C4: optimize and sample (C and Python entry points) fail with a
\* complexity error, with the decomposition built but no bucket tree and no
\* output, exactly when the decomposition of the supplied order has
\* complexity greater than maxComplexity; a call with valid arguments
\* reaches that test, and an order within the budget is never rejected for
\* complexity.
C4_ComplexityExceeded ==
  (CDone /\ cin.fn \in {"optimize", "sample", "py_solve", "py_sample"}) =>
    /\ (CWellFormed /\ COrderValid) => cout.decomp
    /\ cout.decomp =>
         (cout.err = "complexity" <=>
            ~CplxLE(TdComplexity(CTask.adj, cin.variableOrder, CTask.dom),
                    cin.maxComplexity))
    /\ cout.err = "complexity" =>
         cout.decomp /\ ~cout.tree /\ CFailed /\ CNoOutput

\* sample rejected for complexity with a budget of at least 1 and an order
\* of at least two variables
C4_Witness ==
  /\ CDone /\ cin.fn = "sample"
  /\ cout.err = "complexity" /\ cout.status = 1
  /\ cin.maxComplexity >= 1
  /\ Len(cin.variableOrder) >= 2

\* C5: an elimination order that repeats a variable or names an index
\* >= numVars is rejected with an invalid-argument error by the entry points
\* before the TreeDecomp constructor is entered, and by the constructor
\* itself, which also rejects a domain-size vector shorter than numVars or
\* containing 0; nothing is decomposed or solved then.  Every order of
\* distinct in-range variables is accepted.
C5_InvalidOrderRejected ==
  CDone =>
    /\ (cin.fn \in {"optimize", "sample"} /\ CWellFormed) =>
         IF COrderValid
         THEN cout.decomp /\ cout.stage # "order"
         ELSE /\ CFailed /\ cout.err = "invalid_argument" /\ cout.stage = "order"
              /\ ~cout.decomp /\ ~cout.tree /\ CNoOutput
    /\ (cin.fn \in {"py_solve", "py_sample"} /\ cin.negLen = "none") =>
         IF COrderValid
         THEN cout.decomp /\ cout.err # "invalid_argument"
         ELSE /\ CFailed /\ cout.err = "invalid_argument"
              /\ ~cout.decomp /\ ~cout.tree /\ CNoOutput
    /\ cin.fn = "TreeDecomp" =>
         IF /\ COrderValid
            /\ Len(cin.domSizes) >= CTask.numVars
            /\ \A i \in 1 .. Len(cin.domSizes) : cin.domSizes[i] # 0
         THEN cout.outcome = "returned" /\ cout.decomp
         ELSE CFailed /\ cout.err = "invalid_argument" /\ ~cout.decomp

\* optimize rejecting an order of in-range variables that repeats one
C5_Witness ==
  /\ CDone /\ cin.fn = "optimize" /\ CWellFormed
  /\ ~NoDuplicates(cin.variableOrder)
  /\ \A i \in 1 .. Len(cin.variableOrder) : cin.variableOrder[i] < CTask.numVars
  /\ cout.status = 1 /\ cout.stage = "order"

\* C6: optimize and sample reject with an invalid-argument error every
\* initState in which some entry is >= the domain size of its variable.
C6_InitStateRejected ==
  ( /\ CDone /\ cin.fn \in {"optimize", "sample"}
    /\ cin.nulls = {} /\ cin.negLen = "none" /\ CTablesValid /\ COrderValid
    /\ Len(cin.initState) = CTask.numVars
    /\ ~CX0InDomain ) =>
       cout.outcome = "returned" /\ cout.status = 1 /\ cout.err = "invalid_argument"

\* C7: whenever optimize, sample or greedyVarOrder returns a failure status,
\* every output pointer the caller supplied is NULL; none points to a block
\* freed during the call.  Stated for the calls that pass no NULL argument,
\* so that every output pointer was supplied and reset on entry.
C7_OutputsNullOnFailure ==
  ( /\ CDone /\ cin.fn \in CEntryPoints /\ cin.nulls = {}
    /\ cout.outcome = "returned" /\ cout.status # 0 ) =>
       \A p \in DOMAIN cout.ptr : cout.ptr[p] = "null"

\* C8: every failure inside a C entry point becomes a non-zero status with
\* a message of fewer than MAX_ERROR_LENGTH bytes; no exception leaves the
\* entry point, no call dies, and a call with a negative length does not
\* return 0.  Stated for the calls whose initState is within the domains.
C8_FailuresBecomeStatus ==
  (CDone /\ cin.fn \in CEntryPoints /\ CX0InDomain) =>
    /\ cout.outcome = "returned"
    /\ cout.status \in {0, 1}
    /\ cout.status = 1 => cout.msgLen < MAX_ERROR_LENGTH
    /\ cin.negLen \in {"tables_len", "variableOrder_len", "clampRanks_len"} =>
         cout.status = 1

\* ------------------------------------------------------------------------
\* Claims about Graph
\* ------------------------------------------------------------------------
CGraphBuilt == CDone /\ cin.fn = "Graph"

\* the endpoints named by the pairs of the call
CEndpoints == UNION {{cin.pairs[i][1], cin.pairs[i][2]} : i \in 1 .. Len(cin.pairs)}

\* C11: after building a Graph from any list of endpoint pairs and any
\* minVertices, the stored adjacency is symmetric, has no self-loop, lists
\* each vertex's neighbours in strictly ascending order (a pair given
\* several times or in both directions is stored once per direction), the
\* offsets are monotone non-decreasing and cover the adjacency array, and
\* the number of vertices is at least minVertices and greater than every
\* endpoint; u is stored for v exactly when the list has a pair of u and v.
C11_GraphWellFormed ==
  CGraphBuilt =>
    LET g == cout.graph
        n == numVertices(g)
        V == 0 .. (n - 1)
    IN /\ n >= cin.minVars
       /\ \A e \in CEndpoints : e < n
       /\ g.adjOffsets[1] = 0 /\ g.adjOffsets[n + 1] = Len(g.adj)
       /\ \A i \in 1 .. n : g.adjOffsets[i] <= g.adjOffsets[i + 1]
       /\ \A v \in V :
            LET a == Adjacency(g, v)
            IN /\ \A i, j \in 1 .. Len(a) : i < j => a[i] < a[j]
               /\ v \notin Range(a)
               /\ \A u \in V :
                    /\ u \in Range(a) <=> v \in Range(Adjacency(g, u))
                    /\ u \in Range(a) <=>
                         /\ u # v
                         /\ \E i \in 1 .. Len(cin.pairs) :
                              {cin.pairs[i][1], cin.pairs[i][2]} = {u, v}

\* a list with a self-loop and an edge given in both directions, the edge
\* leaving vertex 0 isolated, built with more vertices than the pairs name
C11_Witness ==
  /\ CGraphBuilt
  /\ Len(cin.pairs) = MaxPairs
  /\ \E i, j, k \in 1 .. Len(cin.pairs) :
       /\ cin.pairs[i][1] = cin.pairs[i][2]
       /\ cin.pairs[j] = <<2, 1>> /\ cin.pairs[k] = <<1, 2>>
  /\ numVertices(cout.graph) = cin.minVars
  /\ cin.minVars > NumVars
  /\ Len(cout.graph.adj) = 2

\* ------------------------------------------------------------------------
\* Claims about TreeDecomp
\* ------------------------------------------------------------------------
CDecomposed == CDone /\ cin.fn = "TreeDecomp" /\ cout.outcome = "returned"

\* C12: for every valid (graph, elimination order, domain sizes), every
\* variable of the order is the nodeVar of exactly one node, so that the
\* number of nodes is the length of the order; no clamped variable is a
\* nodeVar; clampedVars is the ascending complement of the order; and the
\* separator of each node that has a parent lies within the parent's
\* nodeVar and separator, a node without a parent having an empty separator.
C12_DecompStructure ==
  CDecomposed =>
    LET nodes == cout.nodes
        order == cin.variableOrder
        cl == cout.clampedVars
        V == 0 .. (CTask.numVars - 1)
    IN /\ Len(nodes) = Len(order)
       /\ \A i \in 1 .. Len(order) :
            Cardinality({k \in 1 .. Len(nodes) : nodes[k].nodeVar = order[i]}) = 1
       /\ \A k \in 1 .. Len(nodes) : nodes[k].nodeVar \notin Range(cl)
       /\ Range(cl) = V \ Range(order)
       /\ \A i, j \in 1 .. Len(cl) : i < j => cl[i] < cl[j]
       /\ \A k \in 1 .. Len(nodes) :
            LET p == Parent(nodes, k)
            IN IF p = 0 THEN nodes[k].sepVars = {}
               ELSE nodes[k].sepVars \subseteq
                      ({nodes[p].nodeVar} \cup nodes[p].sepVars)

\* a decomposition in which a node with a clamped neighbour has a parent
C12_Witness ==
  /\ CDecomposed
  /\ Len(cout.clampedVars) >= 1
  /\ \E k \in 1 .. Len(cout.nodes) :
       /\ Parent(cout.nodes, k) # 0
       /\ cout.nodes[k].clampedVars # {}

\* a call with valid arguments in an environment whose allocations succeed
CValidCall ==
  /\ cin.nulls = {} /\ cin.mallocFails = {} /\ cin.negLen = "none"
  /\ NoDuplicates(cin.variableOrder)
  /\ Range(cin.variableOrder) \subseteq 0 .. (CTask.numVars - 1)
  /\ Len(cin.initState) \in {0, CTask.numVars}
  /\ CX0InDomain
  /\ cin.maxComplexity >= 0

CEmptyTables ==
  /\ CDone /\ cin.tables = <<>>
  /\ cin.fn \in {"optimize", "sample", "py_solve", "py_sample"}
  /\ CValidCall

\* what the claim and its amendment share: the number of variables, the
\* success of the call and the optimum 0
CEmptyOptimum ==
  /\ CTask.numVars = cin.minVars
  /\ cout.outcome = "returned"
  /\ cin.fn \in {"optimize", "sample"} => cout.status = 0
  /\ cin.fn \in {"optimize", "py_solve"} =>
       /\ Len(cout.energies) = 1
       /\ cout.energies[1] = 0

C17_PoolFreesEveryBlock ==
  (CDone /\ cin.fn \in {"optimize", "sample"} /\ cout.outcome = "returned") =>
     IF cout.status = 0
     THEN cout.freed = {}
     ELSE cout.leaked = {}

\* a call of sample, or of the sampling entry point of the python module,
\* that returned marginals
CMarginalsReturned ==
  /\ CDone /\ cin.fn \in {"sample", "py_sample"} /\ cin.returnMarginals # 0
  /\ cout.outcome = "returned"
  /\ cin.fn = "sample" => cout.status = 0

\* the marginals of the C entry point sum to 1
CMarginalsNormalised ==
  \A i \in 1 .. Len(cout.marginals) :
     SumSeq(cout.marginals[i].values) = cout.marginals[i].norm

\* the single marginals of the python module are probabilities
PySingleNormalised ==
  \A j \in 1 .. Len(cout.singleMrg) : cout.singleMrg[j].value <= cout.singleMrg[j].norm

\* the pairwise rows of the python module sum to 1
PyPairsNormalised ==
  \A p \in DOMAIN cout.pairMrg : SumSeq(cout.pairMrg[p].values) = cout.pairMrg[p].norm

\* C18: every marginal returned by sample, single or pairwise, is a
\* distribution whose values sum to 1, for every elimination order, the
\* orders that leave variables clamped included.
C18_MarginalsNormalised ==
  CMarginalsReturned =>
     IF cin.fn = "sample" THEN CMarginalsNormalised
     ELSE PySingleNormalised /\ PyPairsNormalised

\* ------------------------------------------------------------------------
\* Claims about repeated calls of sample
\* ------------------------------------------------------------------------
\* a process is calling sample
SActive == seededRngEngine # Unused

\* C15: two calls of sample with the same non-negative seed and identical
\* inputs return identical samples and identical logZ, whatever calls of
\* sample, with whatever seeds, were made before or between them.
C15_SeedReproducible ==
  SActive =>
    \A i, j \in 1 .. Len(slog) :
      (i < j /\ slog[i].in = slog[j].in /\ slog[i].in.seed >= 0) =>
         /\ slog[i].samples = slog[j].samples
         /\ slog[i].logZ = slog[j].logZ

\* the same seeded call before and after a call drawing from the clock
\* engine, its samples differing from those another seed gives
C15_Witness ==
  /\ SActive /\ Len(slog) = 3
  /\ slog[1].in = slog[3].in /\ slog[1].in.seed >= 0
  /\ slog[1].status = 0 /\ Len(slog[1].samples) = 2
  /\ slog[1].samples[1] # slog[1].samples[2]
  /\ slog[2].in.seed # slog[1].in.seed
  /\ slog[2].in.tables = slog[1].in.tables
  /\ slog[2].in.variableOrder = slog[1].in.variableOrder
  /\ slog[2].samples # slog[1].samples

\* ------------------------------------------------------------------------
\* Claims about the annealing loop
\* ------------------------------------------------------------------------
AActive == anneal # Unused

\* the callback asked for the interrupt
AInterrupted ==
  \E k \in 1 .. Len(anneal.calls) : anneal.calls[k].answer

\* the runs 0 .. n-1 are fully written and no other entry is touched
AWrittenUpTo(n) ==
  \A i \in 0 .. (ain.num_samples - 1) :
    IF i < n
    THEN anneal.states[i] = "written" /\ anneal.energies[i] = "written"
    ELSE anneal.states[i] = "untouched" /\ anneal.energies[i] = "untouched"

\* C16: the interrupt callback is invoked only between runs, never during
\* one; once it has returned true no further run is started and the function
\* returns the number of runs completed so far, whose states and energies
\* are fully written while the entries of the runs not performed are
\* untouched; if it never returns true, exactly num_samples runs are
\* performed and num_samples is returned.
C16_InterruptBetweenRuns ==
  AActive =>
    /\ \A k \in 1 .. Len(anneal.calls) :
         /\ ~anneal.calls[k].during
         /\ anneal.calls[k].completed = k
         /\ k < Len(anneal.calls) => ~anneal.calls[k].answer
    /\ AInterrupted =>
         /\ anneal.started = anneal.calls[Len(anneal.calls)].completed
         /\ anneal.pc \in {"return", "done"}
    /\ (anneal.pc = "done" /\ AInterrupted) =>
         /\ anneal.ret = anneal.calls[Len(anneal.calls)].completed
         /\ AWrittenUpTo(anneal.ret)
    /\ (anneal.pc = "done" /\ ~AInterrupted) =>
         /\ anneal.ret = ain.num_samples
         /\ anneal.started = ain.num_samples
         /\ AWrittenUpTo(ain.num_samples)

\* the callback lets one run pass and stops the second of three
C16_Witness ==
  /\ AActive /\ anneal.pc = "done"
  /\ ain.num_samples = 3 /\ anneal.ret = 2
  /\ Len(anneal.calls) = 2 /\ anneal.calls[2].answer
  /\ anneal.states[2] = "untouched"

\* ------------------------------------------------------------------------
\* Claims about the selection of the variable in greedyVarOrder
\* ------------------------------------------------------------------------
\* an iteration of the main loop has just picked a variable
GvoPicked == glast'.iter = glast.iter + 1

\* selectionRange = min(baseRange * selectionScale, totalRange), times ScaleDen
SelectionRangeNum(base, total) == MinOf(base * gin.scale, ScaleDen * total)

\* the clamp ranks the clamp branch selects by: those of the container after
\* the pending decrement
CurrentClampRank(v) == DecrementClampRank(gv, lastClampRank)[v].clampRank

\* the picked variable was unprocessed, within the budget when eliminated
\* and of minimum clamp rank when clamped
PickedIsCandidate ==
  /\ glast'.v \in Unprocessed(gv)
  /\ glast'.kind = "elim" => CplxLE(gv[glast'.v].complexity, gin.maxC)
  /\ glast'.kind = "clamp" =>
        \A u \in Unprocessed(gv) : CurrentClampRank(glast'.v) <= CurrentClampRank(u)

\* the offset lies in [0, totalRange - 1] and does not exceed the window size;
\* the picked variable is a candidate of its branch
OffsetWithinTotalRange ==
  [][GvoPicked =>
       /\ glast'.incr \in 0 .. (glast'.total - 1)
       /\ ScaleDen * glast'.incr <= SelectionRangeNum(glast'.base, glast'.total)
       /\ PickedIsCandidate]_allvars

\* C19: for every RNG value in [0, 1) and every selectionScale >= 0 the
\* offset chosen by selectVar lies within the window (it is below the window
\* size, or 0 when the window is smaller than one variable), so that the
\* selected variable is unprocessed, within the budget when eliminating and
\* of minimum clampRank when clamping.
C19_OffsetWithinWindow ==
  [][GvoPicked =>
       /\ \/ glast'.incr = 0
          \/ /\ glast'.incr > 0
             /\ ScaleDen * glast'.incr < SelectionRangeNum(glast'.base, glast'.total)
       /\ PickedIsCandidate]_allvars

\* the complexity of eliminating u now: the product of the domain sizes of u
\* and of its current neighbours
ElimComplexity(u) == gin.dom[u] * ProdDom(gv[u].adjList, gin.dom)

\* the unprocessed variables that can be eliminated within maxComplexity
Fitting == {u \in Unprocessed(gv) : CplxLE(ElimComplexity(u), gin.maxC)}

\* C20: a step of greedyVarOrder clamps a variable only when no unprocessed
\* variable can be eliminated within maxComplexity, and eliminates one
\* whenever some unprocessed variable fits.
C20_ClampOnlyWhenNothingFits ==
  [][GvoPicked =>
       /\ glast'.kind = "clamp" => Fitting = {}
       /\ Fitting # {} => glast'.kind = "elim" /\ glast'.v \in Fitting]_allvars

\* a run clamped a variable and then eliminated one that did not fit before
\* the clamp
C20_Witness ==
  /\ glast.kind = "elim"
  /\ gclamped # {}
  /\ ~CplxLE(gin.dom[glast.v] * ProdDom(gin.adj[glast.v], gin.dom), gin.maxC)
  /\ Unprocessed(gv) # {}

\* ------------------------------------------------------------------------
\* Claims about the clamp ranks and the variable data of greedyVarOrder
\* ------------------------------------------------------------------------
\* the clamp rank the decrement for the last clamp gives to u
RankAfterDecrement(u) ==
  IF lastClampRank >= 0 /\ gv[u].clampRank > lastClampRank
  THEN gv[u].clampRank - 1
  ELSE gv[u].clampRank

\* an elimination step changes no clamp rank; a clamp step records the rank
\* of the variable it clamps and applies the decrement for the clamp before
\* it, and only that, to the unprocessed variables
ClampRanksStep ==
  /\ glast'.kind = "elim" =>
        /\ lastClampRank' = lastClampRank
        /\ \A u \in Vars : gv'[u].clampRank = gv[u].clampRank
  /\ glast'.kind = "clamp" =>
        /\ lastClampRank' = gv'[glast'.v].clampRank
        /\ \A u \in Unprocessed(gv) : lastClampRank' <= gv'[u].clampRank
        /\ \A u \in Unprocessed(gv) : gv'[u].clampRank = RankAfterDecrement(u)

\* C21 as stated: after a clamp the unprocessed variables of strictly larger
\* clampRank are decremented by exactly one before the next clamp choice,
\* the others are unchanged, and two unprocessed variables that had
\* different clampRanks still have different clampRanks in the same order.
C21_ClampOrderStrict ==
  [][GvoPicked =>
       /\ ClampRanksStep
       /\ \A u, w \in Unprocessed(gv) :
             gv[u].clampRank < gv[w].clampRank => gv'[u].clampRank < gv'[w].clampRank]_allvars

\* C21: after a clamp the unprocessed variables of strictly larger clampRank
\* are decremented by exactly one before the next clamp choice, the others
\* are unchanged, and the clamp order of two unprocessed variables is never
\* reversed: the one of smaller clampRank keeps a clampRank that is smaller
\* or equal.
C21_ClampOrderWeak ==
  [][GvoPicked =>
       /\ ClampRanksStep
       /\ \A u, w \in Unprocessed(gv) :
             gv[u].clampRank < gv[w].clampRank => gv'[u].clampRank <= gv'[w].clampRank]_allvars

\* the variables that were unprocessed when the last step chose
UnprocessedAtChoice == (Vars \ (PreClamped \cup Range(varOrder) \cup gclamped)) \cup {glast.v}

\* a second clamp chose among variables of which one had been decremented
\* to the rank another one had kept
C21_Witness ==
  /\ glast.kind = "clamp"
  /\ Cardinality(gclamped) >= 2
  /\ \E u, w \in UnprocessedAtChoice :
        /\ gv[w].clampRank < gin.ranks[w]
        /\ gv[u].clampRank = gin.ranks[u]
        /\ gv[u].clampRank = gv[w].clampRank

\* the weighted degree of u as the code computes it: the domain size of u
\* times the number of its current neighbours
WeightedDegree(u) == gin.dom[u] * Cardinality(gv[u].adjList)

\* the weighted degree of u with the neighbours weighted by their domain sizes
WeightedDegreeByDomains(u) == gin.dom[u] * SumDom(gv[u].adjList, gin.dom)

\* the number of fitting variables that come before v by cost and index
PositionByCost(v) ==
  Cardinality({u \in Fitting : \/ gv[u].cost < gv[v].cost
                               \/ gv[u].cost = gv[v].cost /\ u < v})

\* the fitting variables of minimum cost
MinCostGroup == {u \in Fitting : \A w \in Fitting : gv[u].cost <= gv[w].cost}

WorkingGraphAfter(u) ==
  LET v == glast'.v
  IN IF glast'.kind = "elim" /\ u \in gv[v].adjList
     THEN (gv[u].adjList \cup gv[v].adjList) \ {u, v}
     ELSE gv[u].adjList \ {v}

\* the pairs of neighbours of u that are not adjacent
MissingEdges(vs, u) ==
  {e \in SUBSET vs[u].adjList :
      /\ Cardinality(e) = 2
      /\ \E a, b \in e : a # b /\ a \notin vs[b].adjList}

RECURSIVE SumEdgeWeights(_, _)
SumEdgeWeights(E, dom) ==
  IF E = {} THEN 0
  ELSE LET e == CHOOSE x \in E : TRUE
       IN ProdDom(e, dom) + SumEdgeWeights(E \ {e}, dom)

\* the cost of u recomputed on the graph held by vs
CostFromScratch(vs, u) ==
  CASE gin.h = MIN_DEGREE          -> Cardinality(vs[u].adjList)
    [] gin.h = WEIGHTED_MIN_DEGREE -> gin.dom[u] * Cardinality(vs[u].adjList)
    [] gin.h = MIN_FILL            -> Cardinality(MissingEdges(vs, u))
    [] OTHER                       -> SumEdgeWeights(MissingEdges(vs, u), gin.dom)

\* the neighbour sets of the unprocessed variables of vs are symmetric and
\* hold unprocessed variables only, and the stored cost and complexity are
\* the recomputed ones
VarDataCurrent(vs) ==
  \A u \in Unprocessed(vs) :
     /\ vs[u].adjList \subseteq Unprocessed(vs) \ {u}
     /\ \A w \in vs[u].adjList : u \in vs[w].adjList
     /\ vs[u].complexity = gin.dom[u] * ProdDom(vs[u].adjList, gin.dom)
     /\ vs[u].cost = CostFromScratch(vs, u)

\* before the first step the working graph is the graph of the task without
\* the variables clamped from the start
StartsFromTaskGraph ==
  glast.iter = 0 =>
     /\ VarDataCurrent(gv)
     /\ \A u \in Unprocessed(gv) :
           gv[u].adjList = {w \in gin.adj[u] : gin.ranks[w] >= 0}

\* C23: after every elimination or clamp step, for the four heuristics, the
\* neighbour sets of the unprocessed variables are those of the working
\* graph (the neighbours of an eliminated variable joined, every processed
\* variable removed), symmetric and without processed variables, and the
\* stored cost and complexity of every unprocessed variable equal the values
\* recomputed from that graph.
C23_VarDataCurrent ==
  [][GvoPicked =>
       /\ StartsFromTaskGraph
       /\ \A u \in Unprocessed(gv') : gv'[u].adjList = WorkingGraphAfter(u)
       /\ VarDataCurrent(gv')]_allvars

\* the first step of a min-fill run eliminated a variable and changed the
\* cost of an unprocessed variable that was not its neighbour
C23_Witness ==
  /\ gin.h \in {MIN_FILL, WEIGHTED_MIN_FILL}
  /\ glast.kind = "elim"
  /\ glast.iter = 1
  /\ \E w \in Unprocessed(gv) :
        /\ w \notin gin.adj[glast.v]
        /\ gv[w].cost # VarContainer(gin)[w].cost

\* ------------------------------------------------------------------------
\* Base tables and the problem value account for every input table once
\* ------------------------------------------------------------------------
BtClamped == DOMAIN BtTask.adj \ Range(btin.order)

\* the bucket nodes whose base tables include table T
BucketsOf(T, nodes) == {i \in 1 .. Len(nodes) : InBucket(T, nodes[i])}

\* the tables problemValue adds directly: those over clamped variables only
ClampedOnly(task, clampedSet) ==
  SelectSeq(task.tables, LAMBDA T : Range(T.vars) \subseteq clampedSet)

NumBaseTables(task, nodes, x0) ==
  SumSeq([i \in 1 .. Len(nodes) |-> Len(BaseTables(task, nodes[i], x0))])

\* the sum, at a full assignment a, of the base tables of every node
BaseTablesAt(task, nodes, x0, a) ==
  SumSeq([i \in 1 .. Len(nodes) |->
            LET bts == BaseTables(task, nodes[i], x0)
            IN SumSeq([k \in 1 .. Len(bts) |-> bts[k].val[Restrict(a, bts[k].scope)]])])

ClampedOnlyAt(task, clampedSet, x0) ==
  LET only == ClampedOnly(task, clampedSet)
  IN SumSeq([k \in 1 .. Len(only) |-> TabAt(only[k], x0)])

\* C24: in a constructed tree every input table with an unclamped variable
\* is a base table of exactly one bucket node and a table over clamped
\* variables only is a base table of none and is added once by problemValue;
\* the base tables are free of clamped variables and, with the clamped-only
\* tables at x0, they sum to the energy of every assignment that agrees with
\* x0 on the clamped variables
C24_TablesPartitioned ==
  bt.built =>
    /\ \A t \in 1 .. Len(BtTask.tables) :
         LET T == BtTask.tables[t]
         IN IF Range(T.vars) \subseteq BtClamped
            THEN BucketsOf(T, bt.nodes) = {}
            ELSE Cardinality(BucketsOf(T, bt.nodes)) = 1
    /\ NumBaseTables(BtTask, bt.nodes, BtX0) + Len(ClampedOnly(BtTask, BtClamped))
         = Len(BtTask.tables)
    /\ \A i \in 1 .. Len(bt.nodes) :
         LET bts == BaseTables(BtTask, bt.nodes[i], BtX0)
         IN \A k \in 1 .. Len(bts) : bts[k].scope \cap BtClamped = {}
    /\ \A a \in Agreeing(BtTask, btin.order, BtX0) :
         BaseTablesAt(BtTask, bt.nodes, BtX0, a) + ClampedOnlyAt(BtTask, BtClamped, BtX0)
           = Energy(BtTask, a)

\* a tree over a task with a clamped-only table, a table shared between a
\* clamped and an eliminated variable, and a non-zero x0 entry on the clamp
C24_Witness ==
  /\ bt.built
  /\ Len(ClampedOnly(BtTask, BtClamped)) > 0
  /\ \E i \in 1 .. Len(bt.nodes) :
       /\ bt.nodes[i].clampedVars # {}
       /\ \E c \in bt.nodes[i].clampedVars : BtX0[c] # 0
       /\ Len(BaseTables(BtTask, bt.nodes[i], BtX0)) > 1

\* ------------------------------------------------------------------------
\* solve assigns eliminated variables only
\* ------------------------------------------------------------------------
\* optimize or sample has returned solutions of a bucket tree it built
CSolved ==
  /\ cout # Pending
  /\ cin.fn \in {"optimize", "sample"}
  /\ cout.outcome = "returned" /\ cout.status = 0 /\ cout.tree /\ ~cout.ub
  /\ cin.maxSolutions > 0

CClamped == DOMAIN CTask.adj \ Range(cin.variableOrder)

\* the solution vectors written to states or to samples
ReturnedVectors ==
  IF cin.fn = "optimize"
  THEN {SeqOfFn(cout.states[i]) : i \in 1 .. Len(cout.states)}
  ELSE Range(cout.samples)

OnlyWrites(before, after, v) ==
  /\ DOMAIN after = DOMAIN before
  /\ \A u \in DOMAIN before \ {v} : after[u] = before[u]

\* every solve step of the tree of the call, on every solution vector that
\* can reach it, writes the node variable only
SolveStepsWriteNodeVar ==
  LET x0 == X0Of(cin, CTask)
      starts == Agreeing(CTask, cin.variableOrder, x0)
  IN IF cin.fn = "sample"
     THEN LET tree == LspBucketTree(CTask, cin.variableOrder, x0, TRUE, FALSE)
          IN \A i \in 1 .. Len(tree.nodes), sol \in starts, rn \in 0 .. (RngDen - 1) :
               OnlyWrites(sol,
                          LogSumSolve(tree.up[i].full, tree.nodes[i].nodeVar,
                                      tree.nodes[i].sepVars, tree.task.dom, sol, rn),
                          tree.nodes[i].nodeVar)
     ELSE LET tree == BucketTree(CTask, cin.variableOrder, x0, TRUE, FALSE)
          IN \A i \in 1 .. Len(tree.nodes), sol \in starts :
               \A r \in Range(MarginalizerSolve(tree.up[i].full, tree.nodes[i].nodeVar,
                                                tree.nodes[i].sepVars, CTask.dom,
                                                <<[value |-> 0, solution |-> sol]>>,
                                                cin.maxSolutions)) :
                 OnlyWrites(sol, r.solution, tree.nodes[i].nodeVar)

CMerged == cin # Unused /\ cout # Pending /\ cin.fn = "TableMerger"

\* the combination of the merged tables at a full assignment
MergedAt(b) == SumSeq([i \in 1 .. cin.merged |-> TabAt(cin.tables[i], b)])

\* the minimum of the combination over the full assignments that extend a
MarginalAt(a) ==
  MinSet({MergedAt(b) : b \in {f \in Assign(DOMAIN CTask.adj, CTask.dom) :
                                  Restrict(f, DOMAIN a) = a}})

\* C26: a merge returns a table over exactly the requested scope; its value
\* at each assignment is the minimum, over the variables outside the scope,
\* of the sum of the merged tables; merged to the empty scope all tables give
\* the global optimum, and an empty table list gives combineIdentity everywhere
C26_MergeIsMarginal ==
  CMerged =>
    /\ cout.table.scope = Range(cin.outVars)
    /\ DOMAIN cout.table.val = Assign(Range(cin.outVars), CTask.dom)
    /\ \A a \in Assign(Range(cin.outVars), CTask.dom) : cout.table.val[a] = MarginalAt(a)
    /\ (cin.outVars = <<>> /\ cin.merged = Len(cin.tables) =>
          cout.table.val[EmptyAssign]
            = MinSet({Energy(CTask, b) : b \in Assign(DOMAIN CTask.adj, CTask.dom)}))
    /\ (cin.merged = 0 =>
          \A a \in Assign(Range(cin.outVars), CTask.dom) :
            cout.table.val[a] = combineIdentity)

\* a merge that eliminates a variable of the inputs, keeps another and has
\* a variable in the requested scope that no merged table mentions
C26_Witness ==
  /\ CMerged
  /\ cin.merged > 1
  /\ \E v \in Range(cin.outVars) :
       \A i \in 1 .. cin.merged : v \notin Range(cin.tables[i].vars)
  /\ \E i \in 1 .. cin.merged :
       /\ Range(cin.tables[i].vars) \cap Range(cin.outVars) # {}
       /\ Range(cin.tables[i].vars) \ Range(cin.outVars) # {}
  /\ \E a, b \in DOMAIN cout.table.val : cout.table.val[a] # cout.table.val[b]

\* ------------------------------------------------------------------------
\* The dummy algebra under greedyVarOrder
\* ------------------------------------------------------------------------
CGreedyDone == cin # Unused /\ cout # Pending /\ cin.fn = "greedyVarOrder"

\* the call got as far as orang::greedyVarOrder
CGreedyRan == CGreedyDone /\ cout.stage \in {"order", "alloc", "done"}

\* C27 as stated: combineIdentity of the dummy algebra succeeds, its other
\* members are unavailable, and no call of greedyVarOrder fails with
\* OperationUnavailable
C27_IdentitySupported ==
  CGreedyDone =>
    /\ DummyOperations("combineIdentity").ok
    /\ \A op \in DummyOps \ {"combineIdentity"} : ~DummyOperations(op).ok
    /\ cout.err # "OperationUnavailable"

\* C27 amended: every member of the dummy algebra, combineIdentity included,
\* is unavailable; greedyVarOrder calls none of them, so no call fails with
\* OperationUnavailable and a call that reaches the ordering loop returns
\* an order unless the allocation of the output fails
C27_NoOperationNeeded ==
  CGreedyDone =>
    /\ \A op \in DummyOps :
         ~DummyOperations(op).ok /\ DummyOperations(op).err = "OperationUnavailable"
    /\ GreedyOpsUsed \cap DummyOps = {}
    /\ cout.err # "OperationUnavailable"
    /\ (CGreedyRan => cout.stage # "order")
    /\ (CGreedyRan /\ cin.mallocFails = {} => cout.status = 0 /\ cout.stage = "done")

\* an order of several variables computed on a dummy-algebra task
C27_Witness ==
  /\ CGreedyDone
  /\ cout.status = 0 /\ cout.stage = "done"
  /\ Len(cout.order) > 1

\* ------------------------------------------------------------------------
\* The descent ends in a local minimum
\* ------------------------------------------------------------------------
DFlipped == desc.pc = "loop" /\ desc'.pc = "loop" /\ desc'.state # desc.state

DEnergyOf(state) == get_state_energy(state, din.linear_biases, din.couplers)

DLocalMinimum ==
  \A v \in DOMAIN desc.state :
    DEnergyOf([desc.state EXCEPT ![v] = @ * (0 - 1)]) >= DEnergyOf(desc.state)

DAccepted == ~InvalidCoupler(din.couplers, Cardinality(DOMAIN din.linear_biases))

DNoSelfCoupler == \A c \in 1 .. Len(din.couplers) : din.couplers[c][1] # din.couplers[c][2]

\* C28: for every accepted problem and start state the solver returns, each
\* flip it makes lowers the energy of the state, and the state it returns is
\* a local minimum
C28_DescentToLocalMinimum ==
  /\ [][DFlipped => DEnergyOf(desc'.state) < DEnergyOf(desc.state)]_allvars
  /\ (DAccepted => <>(desc.pc = "done"))
  /\ [](desc.pc = "done" => DLocalMinimum)

\* the same for the problems without a coupler from a variable to itself
DescentSoundWithoutSelfCoupler ==
  /\ [][DNoSelfCoupler /\ DFlipped
          => DEnergyOf(desc'.state) < DEnergyOf(desc.state)]_allvars
  /\ (DAccepted /\ DNoSelfCoupler => <>(desc.pc = "done"))
  /\ [](DNoSelfCoupler /\ desc.pc = "done" => DLocalMinimum)

\* the parts of C28 one by one
DFlipsLower == [][DFlipped => DEnergyOf(desc'.state) < DEnergyOf(desc.state)]_allvars

DReturns == DAccepted => <>(desc.pc = "done")

DReturnsLocalMinimum == desc.pc = "done" => DLocalMinimum

\* ------------------------------------------------------------------------
\* sample without marginals and the marginals arguments
\* ------------------------------------------------------------------------
CSampleNoMarginals ==
  cin # Unused /\ cout # Pending /\ cin.fn = "sample" /\ cin.returnMarginals = 0

\* C29: a call of sample with returnMarginals = 0 writes through neither
\* marginals nor marginals_len, and with NULL for either of them it does not
\* crash
C29_MarginalsUntouched ==
  CSampleNoMarginals /\ cin.nulls \subseteq {"marginals", "marginals_len"} =>
    /\ cout.outcome # "crash"
    /\ cout.ptr.marginals \in {"noarg", "unset"}
    /\ "marginals_len" \notin cout.written

\* the part that holds: marginals_len is left alone, a NULL marginals_len
\* is accepted, and both arguments are required when returnMarginals is set
MarginalsLenUntouched ==
  /\ (CSampleNoMarginals => "marginals_len" \notin cout.written)
  /\ (CSampleNoMarginals /\ cin.nulls = {"marginals_len"} =>
        cout.outcome # "crash" /\ cout.stage # "args")
  /\ (cin # Unused /\ cout # Pending /\ cin.fn = "sample" /\ cin.returnMarginals # 0
        /\ cin.nulls \cap {"marginals", "marginals_len"} # {} =>
          cout.status = 1 /\ cout.stage = "args")

\* the call with NULL for marginals alone does not crash
NullMarginalsAccepted ==
  CSampleNoMarginals /\ cin.nulls = {"marginals"} => cout.outcome # "crash"

\* ------------------------------------------------------------------------
\* The accesses of reinitQuantum
\* ------------------------------------------------------------------------
QTotal == SumSeq(SeqOfFn(qin.num_breaks))

\* C30: reinitQuantum reads num_breaks[i] entries of the buffer for qubit i,
\* in total the sum it returns and by which the caller advances, never reads
\* past the buffer and never writes past the resized break list
C30_ReadsNumBreaksEntries ==
  /\ pimc.pastBuffer = 0
  /\ pimc.wild = {}
  /\ (pimc.pc = "done" =>
        /\ \A q \in DOMAIN qin.num_breaks : pimc.nread[q] = qin.num_breaks[q]
        /\ pimc.read = pimc.ret
        /\ pimc.ret = QTotal
        /\ pimc.p_breaks_in = QTotal)

\* what the code does: it returns the sum of num_breaks and the caller
\* advances by it, but it reads and writes firstSlice.size() entries a qubit
ReinitReadsSliceSizeEntries ==
  pimc.pc = "done" =>
    /\ pimc.ret = QTotal /\ pimc.p_breaks_in = QTotal
    /\ \A q \in DOMAIN qin.num_breaks :
         pimc.nread[q] = Cardinality(DOMAIN qin.state)
    /\ pimc.pastBuffer = MaxOf(0, pimc.read - QTotal)
    /\ pimc.wild = {w \in (DOMAIN qin.state) \X (DOMAIN qin.state) :
                       w[2] >= qin.num_breaks[w[1]]}

============================================================================
